---------------------------- MODULE Spec2Model ----------------------------
(***************************************************************************)
(* Model of the routing layer of gh-efforts/store:                         *)
(*   - GetPathProtocol / IsUnionPath (src/protocol.go), together with the  *)
(*     part of Go's net/url.Parse that GetPathProtocol depends on;         *)
(*   - the Store facade with its primary/reader backends                   *)
(*     (src/s3_test.go lines 192-569 hold the current store.go);           *)
(*   - newStore and the environment discovery of the backends.             *)
(*                                                                         *)
(* A Go string is a sequence of one-character strings.  A byte that a      *)
(* percent-escape decodes to and that is not printable ASCII is the token  *)
(* "\xHH" (one element of the sequence).                                   *)
(***************************************************************************)
EXTENDS Integers, Sequences, FiniteSets, TLC

(***************************************************************************)
(* strings                                                                 *)
(***************************************************************************)
LowerSeq == <<"a","b","c","d","e","f","g","h","i","j","k","l","m",
              "n","o","p","q","r","s","t","u","v","w","x","y","z">>

UpperSeq == <<"A","B","C","D","E","F","G","H","I","J","K","L","M",
              "N","O","P","Q","R","S","T","U","V","W","X","Y","Z">>

DigitSeq == <<"0","1","2","3","4","5","6","7","8","9">>

HexSeq == DigitSeq \o <<"a","b","c","d","e","f">>

\* The printable ASCII characters, 0x20 .. 0x7e, in order (the grave accent,
\* which the TLA+ lexer does not accept in a string, is the token "\\x60").
PrintableSeq ==
    <<" ","!","\"","#","$","%","&","'","(",")","*","+",",","-",".","/">>
    \o DigitSeq
    \o <<":",";","<","=",">","?","@">>
    \o UpperSeq
    \o <<"[","\\","]","^","_","\\x60">>
    \o LowerSeq
    \o <<"{","|","}","~">>

Range(f) == { f[i] : i \in DOMAIN f }

IsLetter(c) == c \in Range(LowerSeq) \cup Range(UpperSeq)

IsDigit(c) == c \in Range(DigitSeq)

IndexIn(seq, c) == CHOOSE i \in DOMAIN seq : seq[i] = c

\* strings.ToLower, on ASCII
ToLowerChar(c) == IF c \in Range(UpperSeq) THEN LowerSeq[IndexIn(UpperSeq, c)] ELSE c

ToLower(s) == [i \in DOMAIN s |-> ToLowerChar(s[i])]

\* strings.HasPrefix
HasPrefix(s, p) == Len(s) >= Len(p) /\ SubSeq(s, 1, Len(p)) = p

\* strings.HasSuffix
HasSuffix(s, p) == Len(s) >= Len(p) /\ SubSeq(s, Len(s) - Len(p) + 1, Len(s)) = p

\* strings.TrimPrefix
TrimPrefix(s, p) == IF HasPrefix(s, p) THEN SubSeq(s, Len(p) + 1, Len(s)) ELSE s

\* strings.Index for a one-character separator, 1-based; 0 when absent
Index(s, c) ==
    IF \E i \in DOMAIN s : s[i] = c
    THEN CHOOSE i \in DOMAIN s : s[i] = c /\ \A j \in 1..(i - 1) : s[j] # c
    ELSE 0

\* strings.LastIndex for a one-character separator, 1-based; 0 when absent
LastIndex(s, c) ==
    IF \E i \in DOMAIN s : s[i] = c
    THEN CHOOSE i \in DOMAIN s : s[i] = c /\ \A j \in (i + 1)..Len(s) : s[j] # c
    ELSE 0

\* strings.Index for a substring, 1-based; 0 when absent
IndexSeq(s, sub) ==
    IF \E i \in 1..(Len(s) - Len(sub) + 1) : SubSeq(s, i, i + Len(sub) - 1) = sub
    THEN CHOOSE i \in 1..(Len(s) - Len(sub) + 1) :
             /\ SubSeq(s, i, i + Len(sub) - 1) = sub
             /\ \A j \in 1..(i - 1) : SubSeq(s, j, j + Len(sub) - 1) # sub
    ELSE 0

\* strings.Contains for a one-character substring
Contains(s, c) == \E i \in DOMAIN s : s[i] = c

\* strings.Cut for a one-character separator
CutAt(s, i) ==
    IF i = 0
    THEN [before |-> s, after |-> <<>>, found |-> FALSE]
    ELSE [before |-> SubSeq(s, 1, i - 1), after |-> SubSeq(s, i + 1, Len(s)), found |-> TRUE]

Cut(s, c) == CutAt(s, Index(s, c))

(***************************************************************************)
(* net/url                                                                 *)
(***************************************************************************)
ishex(c) == ToLowerChar(c) \in Range(HexSeq)

unhex(c) == IndexIn(HexSeq, ToLowerChar(c)) - 1

\* The character of the byte unhex(a)<<4 | unhex(b).
ByteChar(n, a, b) ==
    IF n >= 32 /\ n <= 126
    THEN PrintableSeq[n - 31]
    ELSE "\\x" \o ToLowerChar(a) \o ToLowerChar(b)

DecodedByte(a, b) == ByteChar(16 * unhex(a) + unhex(b), a, b)

\* The tokens of the bytes 0x80 .. 0xff: s[i] >= utf8.RuneSelf
HighBytes ==
    { "\\x" \o a \o b : a \in {"8","9","a","b","c","d","e","f"}, b \in Range(HexSeq) }

\* The tokens of the bytes below 0x20, and of 0x7f: b < ' ' || b == 0x7f
CTLBytes ==
    { "\\x" \o a \o b : a \in {"0","1"}, b \in Range(HexSeq) } \cup { "\\x7f" }

\* stringContainsCTLByte(s)
stringContainsCTLByte(s) == \E i \in DOMAIN s : s[i] \in CTLBytes

\* shouldEscape(c, encodeHost): every byte that is not listed is escaped
ShouldEscapeHost(c) ==
    ~ ( IsLetter(c) \/ IsDigit(c)
        \/ c \in {"!","$","&","'","(",")","*","+",",",";","=",":","[","]","<",">","\""}
        \/ c \in {"-","_",".","~"} )

\* The first pass of unescape: the error it returns, or "nil".
\* mode is "host" (encodeHost), "zone" (encodeZone) or any other mode that
\* only checks the escapes.
RECURSIVE UnescapeCheck(_, _, _)
UnescapeCheck(s, i, mode) ==
    IF i > Len(s) THEN "nil"
    ELSE IF s[i] = "%"
    THEN IF i + 2 > Len(s) \/ ~ishex(s[i + 1]) \/ ~ishex(s[i + 2])
         THEN "invalid URL escape"
         ELSE IF mode = "host" /\ unhex(s[i + 1]) < 8
                 /\ SubSeq(s, i, i + 2) # <<"%","2","5">>
         THEN "invalid URL escape"
         ELSE IF mode = "zone" /\ SubSeq(s, i, i + 2) # <<"%","2","5">>
                 /\ DecodedByte(s[i + 1], s[i + 2]) # " "
                 /\ ShouldEscapeHost(DecodedByte(s[i + 1], s[i + 2]))
         THEN "invalid URL escape"
         ELSE UnescapeCheck(s, i + 3, mode)
    ELSE IF mode \in {"host", "zone"} /\ s[i] \notin HighBytes /\ ShouldEscapeHost(s[i])
    THEN "invalid character in host name"
    ELSE UnescapeCheck(s, i + 1, mode)

\* The second pass of unescape: the decoded string (of a string that passed).
RECURSIVE UnescapeDecode(_, _)
UnescapeDecode(s, i) ==
    IF i > Len(s) THEN <<>>
    ELSE IF s[i] = "%"
    THEN <<DecodedByte(s[i + 1], s[i + 2])>> \o UnescapeDecode(s, i + 3)
    ELSE <<s[i]>> \o UnescapeDecode(s, i + 1)

\* unescape(s, mode): [err, s]
unescapeChecked(s, e) ==
    IF e # "nil" THEN [err |-> e, s |-> <<>>]
    ELSE [err |-> "nil", s |-> UnescapeDecode(s, 1)]

unescape(s, mode) == unescapeChecked(s, UnescapeCheck(s, 1, mode))

\* getScheme(rawURL): [scheme, rest, err]
RECURSIVE getSchemeFrom(_, _)
getSchemeFrom(rawURL, i) ==
    IF i > Len(rawURL) THEN [scheme |-> <<>>, rest |-> rawURL, err |-> "nil"]
    ELSE IF IsLetter(rawURL[i]) THEN getSchemeFrom(rawURL, i + 1)
    ELSE IF IsDigit(rawURL[i]) \/ rawURL[i] \in {"+", "-", "."}
    THEN IF i = 1
         THEN [scheme |-> <<>>, rest |-> rawURL, err |-> "nil"]
         ELSE getSchemeFrom(rawURL, i + 1)
    ELSE IF rawURL[i] = ":"
    THEN IF i = 1
         THEN [scheme |-> <<>>, rest |-> <<>>, err |-> "missing protocol scheme"]
         ELSE [scheme |-> SubSeq(rawURL, 1, i - 1),
               rest |-> SubSeq(rawURL, i + 1, Len(rawURL)), err |-> "nil"]
    ELSE [scheme |-> <<>>, rest |-> rawURL, err |-> "nil"]

getScheme(rawURL) == getSchemeFrom(rawURL, 1)

\* validOptionalPort(port)
validOptionalPort(port) ==
    \/ port = <<>>
    \/ /\ port[1] = ":"
       /\ \A i \in 2..Len(port) : IsDigit(port[i])

\* parseHost(host): [err, host]
parseHostUnescaped(u) == [err |-> u.err, host |-> u.s]

\* host1 + host2 + host3 of an IP-literal with a zone, each unescaped
parseHostZone(host1, host2, host3) ==
    IF host1.err # "nil" THEN [err |-> host1.err, host |-> <<>>]
    ELSE IF host2.err # "nil" THEN [err |-> host2.err, host |-> <<>>]
    ELSE IF host3.err # "nil" THEN [err |-> host3.err, host |-> <<>>]
    ELSE [err |-> "nil", host |-> host1.s \o host2.s \o host3.s]

\* bracket and colon are strings.LastIndex(host, "]") and (host, ":")
parseHostAt(host, bracket, colon) ==
    IF HasPrefix(host, <<"[">>)
    THEN \* an IP-literal: the closing bracket, the port after it, the zone
         IF bracket = 0 THEN [err |-> "missing ']' in host", host |-> <<>>]
         ELSE IF ~validOptionalPort(SubSeq(host, bracket + 1, Len(host)))
         THEN [err |-> "invalid port after host", host |-> <<>>]
         ELSE IF IndexSeq(SubSeq(host, 1, bracket - 1), <<"%","2","5">>) # 0
         THEN LET zone == IndexSeq(SubSeq(host, 1, bracket - 1), <<"%","2","5">>)
              IN  parseHostZone(unescape(SubSeq(host, 1, zone - 1), "host"),
                                unescape(SubSeq(host, zone, bracket - 1), "zone"),
                                unescape(SubSeq(host, bracket, Len(host)), "host"))
         ELSE parseHostUnescaped(unescape(host, "host"))
    ELSE IF colon # 0 /\ ~validOptionalPort(SubSeq(host, colon, Len(host)))
    THEN [err |-> "invalid port after host", host |-> <<>>]
    ELSE parseHostUnescaped(unescape(host, "host"))

parseHost(host) == parseHostAt(host, LastIndex(host, "]"), LastIndex(host, ":"))

\* validUserinfo(s)
validUserinfo(s) ==
    \A i \in DOMAIN s :
        \/ IsLetter(s[i]) \/ IsDigit(s[i])
        \/ s[i] \in {"-",".","_",":","~","!","$","&","'","(",")","*","+",",",";","=","%","@"}

\* parseAuthority(authority): [err, user, host]; user is whether a Userinfo is set
parseUserinfo(h, userinfo, c) ==
    IF ~validUserinfo(userinfo)
    THEN [err |-> "net/url: invalid userinfo", user |-> FALSE, host |-> <<>>]
    ELSE IF UnescapeCheck(c.before, 1, "userPassword") # "nil"
    THEN [err |-> "invalid URL escape", user |-> FALSE, host |-> <<>>]
    ELSE IF c.found /\ UnescapeCheck(c.after, 1, "userPassword") # "nil"
    THEN [err |-> "invalid URL escape", user |-> FALSE, host |-> <<>>]
    ELSE [err |-> "nil", user |-> TRUE, host |-> h.host]

parseAuthorityHost(authority, i, h) ==
    IF h.err # "nil" THEN [err |-> h.err, user |-> FALSE, host |-> <<>>]
    ELSE IF i = 0 THEN [err |-> "nil", user |-> FALSE, host |-> h.host]
    ELSE parseUserinfo(h, SubSeq(authority, 1, i - 1),
                       Cut(SubSeq(authority, 1, i - 1), ":"))

parseAuthorityAt(authority, i) ==
    parseAuthorityHost(authority, i,
        IF i = 0 THEN parseHost(authority)
        ELSE parseHost(SubSeq(authority, i + 1, Len(authority))))

parseAuthority(authority) == parseAuthorityAt(authority, LastIndex(authority, "@"))

URLError(e) ==
    [err |-> e, Scheme |-> <<>>, Opaque |-> <<>>, User |-> FALSE, Host |-> <<>>, Path |-> <<>>]

\* url.setPath(rest), and the URL that parse returns
parseSetPath(scheme, auth, path) ==
    IF path.err # "nil" THEN URLError(path.err)
    ELSE [err |-> "nil", Scheme |-> scheme, Opaque |-> <<>>, User |-> auth.user,
          Host |-> auth.host, Path |-> path.s]

parseWithAuthority(scheme, auth, rest) ==
    IF auth.err # "nil" THEN URLError(auth.err)
    ELSE parseSetPath(scheme, auth, unescape(rest, "path"))

\* authority, rest = rest[2:], ""; the authority ends at the first "/"
parseSplitAuthority(scheme, after, slash) ==
    IF slash = 0
    THEN parseWithAuthority(scheme, parseAuthority(after), <<>>)
    ELSE parseWithAuthority(scheme, parseAuthority(SubSeq(after, 1, slash - 1)),
                            SubSeq(after, slash, Len(after)))

parseRest(scheme, rest) ==
    IF ~HasPrefix(rest, <<"/">>) /\ scheme # <<>>
    THEN \* a rootless path after a scheme is opaque
         [err |-> "nil", Scheme |-> scheme, Opaque |-> rest, User |-> FALSE,
          Host |-> <<>>, Path |-> <<>>]
    ELSE IF ~HasPrefix(rest, <<"/">>) /\ Contains(Cut(rest, "/").before, ":")
    THEN URLError("first path segment in URL cannot contain colon")
    ELSE IF /\ scheme # <<>> \/ ~HasPrefix(rest, <<"/","/","/">>)
            /\ HasPrefix(rest, <<"/","/">>)
    THEN parseSplitAuthority(scheme, SubSeq(rest, 3, Len(rest)),
                             Index(SubSeq(rest, 3, Len(rest)), "/"))
    ELSE parseSetPath(scheme, [err |-> "nil", user |-> FALSE, host |-> <<>>],
                      unescape(rest, "path"))

\* with or without ForceQuery, the rest is what precedes the first "?"
parseAfterScheme(gs) ==
    IF gs.err # "nil" THEN URLError(gs.err)
    ELSE parseRest(ToLower(gs.scheme), Cut(gs.rest, "?").before)

\* parse(rawURL, viaRequest = false), rawURL without its fragment
parse(rawURL) ==
    IF stringContainsCTLByte(rawURL)
    THEN URLError("net/url: invalid control character in URL")
    ELSE IF rawURL = <<"*">>
    THEN [err |-> "nil", Scheme |-> <<>>, Opaque |-> <<>>, User |-> FALSE,
          Host |-> <<>>, Path |-> <<"*">>]
    ELSE parseAfterScheme(getScheme(rawURL))

\* url.setFragment(frag)
ParseFragment(u, frag) ==
    IF u.err # "nil" THEN u
    ELSE IF frag = <<>> THEN u
    ELSE IF UnescapeCheck(frag, 1, "fragment") # "nil"
    THEN URLError("invalid URL escape")
    ELSE u

ParseCut(c) == ParseFragment(parse(c.before), c.after)

\* url.Parse(rawURL)
Parse(rawURL) == ParseCut(Cut(rawURL, "#"))

(***************************************************************************)
(* protocol.go                                                             *)
(***************************************************************************)
QiniuProtocol == "qiniu"

S3Protocol == "s3"

OSProtocol == ""

UnknownPathProtocol == "unknown"

\* PathProtocol.String(), as a sequence of characters
ProtocolString(pp) ==
    CASE pp = QiniuProtocol -> <<"q","i","n","i","u">>
      [] pp = S3Protocol    -> <<"s","3">>
      [] pp = OSProtocol    -> <<>>
      [] OTHER              -> <<"u","n","k","n","o","w","n">>

\* ClassifyURL without the case of the s3 scheme
ClassifyURLNoS3(u) ==
    IF u.err # "nil"
    THEN [pp |-> UnknownPathProtocol, key |-> <<>>, err |-> u.err]
    ELSE IF u.Path = <<>>
    THEN [pp |-> UnknownPathProtocol, key |-> TrimPrefix(u.Path, <<"/">>),
          err |-> "unsupported path"]
    ELSE IF u.Host # <<>>
    THEN [pp |-> UnknownPathProtocol, key |-> TrimPrefix(u.Path, <<"/">>),
          err |-> "unsupported network path"]
    ELSE IF u.Scheme = ProtocolString(QiniuProtocol)
    THEN [pp |-> QiniuProtocol, key |-> TrimPrefix(u.Path, <<"/">>), err |-> "nil"]
    ELSE IF u.Scheme = ProtocolString(OSProtocol)
    THEN IF HasPrefix(u.Path, <<"/">>)
         THEN [pp |-> OSProtocol, key |-> u.Path, err |-> "nil"]
         ELSE [pp |-> UnknownPathProtocol, key |-> u.Path, err |-> "unsupported path"]
    ELSE [pp |-> UnknownPathProtocol, key |-> u.Path, err |-> "nil"]

\* ClassifyURL without the test that a path without scheme begins with "/"
ClassifyURLAnyBarePath(u) ==
    IF u.err # "nil"
    THEN [pp |-> UnknownPathProtocol, key |-> <<>>, err |-> u.err]
    ELSE IF u.Path = <<>>
    THEN [pp |-> UnknownPathProtocol, key |-> TrimPrefix(u.Path, <<"/">>),
          err |-> "unsupported path"]
    ELSE IF u.Host # <<>>
    THEN [pp |-> UnknownPathProtocol, key |-> TrimPrefix(u.Path, <<"/">>),
          err |-> "unsupported network path"]
    ELSE IF u.Scheme = ProtocolString(QiniuProtocol)
    THEN [pp |-> QiniuProtocol, key |-> TrimPrefix(u.Path, <<"/">>), err |-> "nil"]
    ELSE IF u.Scheme = ProtocolString(S3Protocol)
    THEN [pp |-> S3Protocol, key |-> TrimPrefix(u.Path, <<"/">>), err |-> "nil"]
    ELSE IF u.Scheme = ProtocolString(OSProtocol)
    THEN [pp |-> OSProtocol, key |-> u.Path, err |-> "nil"]
    ELSE [pp |-> UnknownPathProtocol, key |-> u.Path, err |-> "nil"]

\* ClassifyURL stripping the leading "/" of a local path as it does for the others
ClassifyURLTrimsLocalPath(u) ==
    IF u.err # "nil"
    THEN [pp |-> UnknownPathProtocol, key |-> <<>>, err |-> u.err]
    ELSE IF u.Path = <<>>
    THEN [pp |-> UnknownPathProtocol, key |-> TrimPrefix(u.Path, <<"/">>),
          err |-> "unsupported path"]
    ELSE IF u.Host # <<>>
    THEN [pp |-> UnknownPathProtocol, key |-> TrimPrefix(u.Path, <<"/">>),
          err |-> "unsupported network path"]
    ELSE IF u.Scheme = ProtocolString(QiniuProtocol)
    THEN [pp |-> QiniuProtocol, key |-> TrimPrefix(u.Path, <<"/">>), err |-> "nil"]
    ELSE IF u.Scheme = ProtocolString(S3Protocol)
    THEN [pp |-> S3Protocol, key |-> TrimPrefix(u.Path, <<"/">>), err |-> "nil"]
    ELSE IF u.Scheme = ProtocolString(OSProtocol)
    THEN IF HasPrefix(u.Path, <<"/">>)
         THEN [pp |-> OSProtocol, key |-> TrimPrefix(u.Path, <<"/">>), err |-> "nil"]
         ELSE [pp |-> UnknownPathProtocol, key |-> u.Path, err |-> "unsupported path"]
    ELSE [pp |-> UnknownPathProtocol, key |-> u.Path, err |-> "nil"]

\* ClassifyURL returning an error in the default case of the switch
ClassifyURLUnknownSchemeFails(u) ==
    IF u.err # "nil"
    THEN [pp |-> UnknownPathProtocol, key |-> <<>>, err |-> u.err]
    ELSE IF u.Path = <<>>
    THEN [pp |-> UnknownPathProtocol, key |-> TrimPrefix(u.Path, <<"/">>),
          err |-> "unsupported path"]
    ELSE IF u.Host # <<>>
    THEN [pp |-> UnknownPathProtocol, key |-> TrimPrefix(u.Path, <<"/">>),
          err |-> "unsupported network path"]
    ELSE IF u.Scheme = ProtocolString(QiniuProtocol)
    THEN [pp |-> QiniuProtocol, key |-> TrimPrefix(u.Path, <<"/">>), err |-> "nil"]
    ELSE IF u.Scheme = ProtocolString(S3Protocol)
    THEN [pp |-> S3Protocol, key |-> TrimPrefix(u.Path, <<"/">>), err |-> "nil"]
    ELSE IF u.Scheme = ProtocolString(OSProtocol)
    THEN IF HasPrefix(u.Path, <<"/">>)
         THEN [pp |-> OSProtocol, key |-> u.Path, err |-> "nil"]
         ELSE [pp |-> UnknownPathProtocol, key |-> u.Path, err |-> "unsupported path"]
    ELSE [pp |-> UnknownPathProtocol, key |-> u.Path, err |-> "unsupported path"]

\* ClassifyURL returning the path of an s3 URL with its leading "/"
ClassifyURLKeepsSlash(u) ==
    IF u.err # "nil"
    THEN [pp |-> UnknownPathProtocol, key |-> <<>>, err |-> u.err]
    ELSE IF u.Path = <<>>
    THEN [pp |-> UnknownPathProtocol, key |-> TrimPrefix(u.Path, <<"/">>),
          err |-> "unsupported path"]
    ELSE IF u.Host # <<>>
    THEN [pp |-> UnknownPathProtocol, key |-> TrimPrefix(u.Path, <<"/">>),
          err |-> "unsupported network path"]
    ELSE IF u.Scheme = ProtocolString(QiniuProtocol)
    THEN [pp |-> QiniuProtocol, key |-> TrimPrefix(u.Path, <<"/">>), err |-> "nil"]
    ELSE IF u.Scheme = ProtocolString(S3Protocol)
    THEN [pp |-> S3Protocol, key |-> u.Path, err |-> "nil"]
    ELSE IF u.Scheme = ProtocolString(OSProtocol)
    THEN IF HasPrefix(u.Path, <<"/">>)
         THEN [pp |-> OSProtocol, key |-> u.Path, err |-> "nil"]
         ELSE [pp |-> UnknownPathProtocol, key |-> u.Path, err |-> "unsupported path"]
    ELSE [pp |-> UnknownPathProtocol, key |-> u.Path, err |-> "nil"]

\* GetPathProtocol after url.Parse(p) returned u
ClassifyURL(u) ==
    IF u.err # "nil"
    THEN [pp |-> UnknownPathProtocol, key |-> <<>>, err |-> u.err]
    ELSE IF u.Path = <<>>
    THEN [pp |-> UnknownPathProtocol, key |-> TrimPrefix(u.Path, <<"/">>),
          err |-> "unsupported path"]
    ELSE IF u.Host # <<>>
    THEN [pp |-> UnknownPathProtocol, key |-> TrimPrefix(u.Path, <<"/">>),
          err |-> "unsupported network path"]
    ELSE IF u.Scheme = ProtocolString(QiniuProtocol)
    THEN [pp |-> QiniuProtocol, key |-> TrimPrefix(u.Path, <<"/">>), err |-> "nil"]
    ELSE IF u.Scheme = ProtocolString(S3Protocol)
    THEN [pp |-> S3Protocol, key |-> TrimPrefix(u.Path, <<"/">>), err |-> "nil"]
    ELSE IF u.Scheme = ProtocolString(OSProtocol)
    THEN IF HasPrefix(u.Path, <<"/">>)
         THEN [pp |-> OSProtocol, key |-> u.Path, err |-> "nil"]
         ELSE [pp |-> UnknownPathProtocol, key |-> u.Path, err |-> "unsupported path"]
    ELSE [pp |-> UnknownPathProtocol, key |-> u.Path, err |-> "nil"]

\* GetPathProtocol(p): [pp, key, err]
GetPathProtocol(p) == ClassifyURL(Parse(p))

\* IsUnionPath true for the qiniu and s3 protocols only
IsUnionPathOfSupportedOnly(r) ==
    IF r.err # "nil" THEN FALSE
    ELSE r.pp \in {QiniuProtocol, S3Protocol}

\* IsUnionPath(p), after GetPathProtocol(p) returned r
IsUnionPathOf(r) ==
    IF r.err # "nil" THEN FALSE
    ELSE IF r.pp = OSProtocol THEN FALSE
    ELSE TRUE

IsUnionPath(p) == IsUnionPathOf(GetPathProtocol(p))

(***************************************************************************)
(* store.go: construction                                                  *)
(***************************************************************************)
ErrNotConfigured == "store is not configured"

S3Env == "S3_STORE_CONFIG"

S3ReaderEnv == "S3_READER_CONFIG"

QiniuEnv == "QINIU_STORE_CONFIG"

QiniuReaderEnv == "QINIU_READER_CONFIG"

\* operation.QINIU_ENV and operation.QINIU_MULTI_CLUSTER_ENV of the qiniu SDK
QINIU_ENV == "QINIU"

QINIU_MULTI_CLUSTER_ENV == "QINIU_MULTI_CLUSTER"

EnvNames == {S3Env, S3ReaderEnv, QiniuEnv, QiniuReaderEnv, QINIU_ENV,
             QINIU_MULTI_CLUSTER_ENV, "QINIU_READER_CONFIG_PATH"}

\* A configuration path is known by whether the file it names loads.
\* An environment variable is "unset" or holds a path.
EnvValues == {"unset", "good", "bad"}

ArgPaths == {"", "good", "bad"}

Envs == [EnvNames -> EnvValues]

\* NewQiniuStore(cfgPath): [st, err]
NewQiniuStore(cfgPath) ==
    IF cfgPath = "good" THEN [st |-> "QiniuStore", err |-> "nil"]
    ELSE [st |-> "nil", err |-> "load qiniu config"]

\* NewS3Store(cfgPath): [st, err]
NewS3Store(cfgPath) ==
    IF cfgPath = "good" THEN [st |-> "S3Store", err |-> "nil"]
    ELSE [st |-> "nil", err |-> "load s3 config"]

\* NewMultiClusterQiniuStore(): [st, err]
NewMultiClusterQiniuStore(env) ==
    IF env[QINIU_MULTI_CLUSTER_ENV] = "unset"
    THEN [st |-> "nil", err |-> "qiniu is not configured"]
    ELSE [st |-> "MultiClusterQiniuStore", err |-> "nil"]

\* newQiniuFromEnv using the variable of the list that is set last
RECURSIVE newQiniuFromEnvLastSet(_, _)
newQiniuFromEnvLastSet(envs, env) ==
    IF envs = <<>> THEN [st |-> "nil", err |-> "nil", used |-> "none"]
    ELSE LET later == newQiniuFromEnvLastSet(Tail(envs), env)
         IN  IF later.used # "none" THEN later
             ELSE IF env[Head(envs)] # "unset"
             THEN LET r == IF Head(envs) = QINIU_MULTI_CLUSTER_ENV
                           THEN NewMultiClusterQiniuStore(env)
                           ELSE NewQiniuStore(env[Head(envs)])
                  IN  [st |-> r.st, err |-> r.err, used |-> Head(envs)]
             ELSE later

\* newQiniuFromEnv(envs): [st, err, used]; used is the variable that was read
RECURSIVE newQiniuFromEnv(_, _)
newQiniuFromEnv(envs, env) ==
    IF envs = <<>> THEN [st |-> "nil", err |-> "nil", used |-> "none"]
    ELSE IF env[Head(envs)] # "unset"
    THEN LET r == IF Head(envs) = QINIU_MULTI_CLUSTER_ENV
                  THEN NewMultiClusterQiniuStore(env)
                  ELSE NewQiniuStore(env[Head(envs)])
         IN  [st |-> r.st, err |-> r.err, used |-> Head(envs)]
    ELSE newQiniuFromEnv(Tail(envs), env)

\* newS3FromEnv(envs): [st, err, used]
RECURSIVE newS3FromEnv(_, _)
newS3FromEnv(envs, env) ==
    IF envs = <<>> THEN [st |-> "nil", err |-> "nil", used |-> "none"]
    ELSE IF env[Head(envs)] # "unset"
    THEN LET r == NewS3Store(env[Head(envs)])
         IN  [st |-> r.st, err |-> r.err, used |-> Head(envs)]
    ELSE newS3FromEnv(Tail(envs), env)

NoStore ==
    [osStore |-> "nil", qiniuStore |-> "nil", qiniuReaderStore |-> "nil",
     s3Store |-> "nil", s3ReaderStore |-> "nil"]

NoSources ==
    [qiniuStore |-> "none", qiniuReaderStore |-> "none",
     s3Store |-> "none", s3ReaderStore |-> "none"]

\* newStore(qiniuConfigPath, s3ConfigPath): [store, err, used]
newStore(qiniuConfigPath, s3ConfigPath, env) ==
    LET qs == IF qiniuConfigPath = ""
              THEN newQiniuFromEnv(<<QiniuEnv, QINIU_ENV>>, env)
              ELSE LET r == NewQiniuStore(qiniuConfigPath)
                   IN  [st |-> r.st, err |-> r.err, used |-> "argument"]
        qr == newQiniuFromEnv(<<QINIU_MULTI_CLUSTER_ENV, QiniuReaderEnv,
                                "QINIU_READER_CONFIG_PATH">>, env)
        ss == IF s3ConfigPath = ""
              THEN newS3FromEnv(<<S3Env>>, env)
              ELSE LET r == NewS3Store(s3ConfigPath)
                   IN  [st |-> r.st, err |-> r.err, used |-> "argument"]
        sr == newS3FromEnv(<<S3ReaderEnv>>, env)
        failed(e) == [store |-> NoStore, err |-> e, used |-> NoSources]
    IN  IF qs.err # "nil" THEN failed("new qiniu store error")
        ELSE IF qr.err # "nil" THEN failed("new qiniu reader error")
        ELSE IF ss.err # "nil" THEN failed("new s3 store error")
        ELSE IF sr.err # "nil" THEN failed("new s3 reader error")
        ELSE [store |-> [osStore |-> "OSStore", qiniuStore |-> qs.st,
                         qiniuReaderStore |-> qr.st, s3Store |-> ss.st,
                         s3ReaderStore |-> sr.st],
              err |-> "nil",
              used |-> [qiniuStore |-> qs.used, qiniuReaderStore |-> qr.used,
                        s3Store |-> ss.used, s3ReaderStore |-> sr.used]]

\* The stores NewStore can return.
ConstructedStores ==
    { newStore(q, s, e).store : <<q, s, e>> \in
        { x \in ArgPaths \X ArgPaths \X Envs : newStore(x[1], x[2], x[3]).err = "nil" } }

(***************************************************************************)
(* s3_multi_config.go                                                      *)
(*                                                                         *)
(* S3MultiStoreConfig.cfgs is a set of entries, one for each prefix of the *)
(* map: [prefix, endpoint].  An S3Config is known by whether a client can  *)
(* be made for its endpoint.  An error is the sequence of its message and  *)
(* of the string formatted into it.                                        *)
(***************************************************************************)
NilError == <<"nil">>

NoConfigurationFound == "no s3 configuration found for key: "

Errorf(msg, arg) == <<msg>> \o arg

\* NewS3Store(cfg): [st, err, from]; from holds the prefix of the entry the
\* client was made from
NewS3StoreOfConfig(cfg) ==
    IF cfg.endpoint = "good"
    THEN [st |-> "S3Store", err |-> NilError, from |-> {cfg.prefix}]
    ELSE [st |-> "nil", err |-> Errorf("initialize s3 client", <<>>),
          from |-> {cfg.prefix}]

isKeyStartsWithPrefixAsGiven(key, prefix) == HasPrefix(key, prefix)

isKeyStartsWithPrefix(key, prefix) ==
    LET k == IF ~HasSuffix(key, <<"/">>) THEN key \o <<"/">> ELSE key
        p == IF ~HasSuffix(prefix, <<"/">>) THEN prefix \o <<"/">> ELSE prefix
    IN  HasPrefix(k, p)

\* The orders in which a range over the map can visit its entries.
RangeOrders(cfgs) ==
    { o \in [1..Cardinality(cfgs) -> cfgs] :
        \A i, j \in 1..Cardinality(cfgs) : i # j => o[i] # o[j] }

NoConfig == [prefix |-> <<>>, endpoint |-> "nil"]

\* selects the entry visited first, whether its prefix matches or not
defaultSelectConfigCallbackFuncFirstEntry(order, key) ==
    IF order = <<>> THEN [config |-> NoConfig, ok |-> FALSE]
    ELSE [config |-> Head(order), ok |-> TRUE]

\* defaultSelectConfigCallbackFunc(cfgs, key), the range visiting cfgs in order
RECURSIVE defaultSelectConfigCallbackFunc(_, _)
defaultSelectConfigCallbackFunc(order, key) ==
    IF order = <<>> THEN [config |-> NoConfig, ok |-> FALSE]
    ELSE IF isKeyStartsWithPrefix(key, Head(order).prefix)
    THEN [config |-> Head(order), ok |-> TRUE]
    ELSE defaultSelectConfigCallbackFunc(Tail(order), key)

getStoreOfSelected(sel, key) ==
    IF ~sel.ok
    THEN [st |-> "nil", err |-> Errorf(NoConfigurationFound, key), from |-> {}]
    ELSE NewS3StoreOfConfig(sel.config)

\* S3MultiStoreConfig.getStore(key): [st, err, from]
getStore(order, key) ==
    getStoreOfSelected(defaultSelectConfigCallbackFunc(order, key), key)

\* sync.RWMutex: lk is [readers, writer], the callers that hold the read
\* lock and whether the write lock is held or waited for.
CanRLock(l) == ~l.writer

\* s.lk.RLock() by caller p
RLock(l, p) == [l EXCEPT !.readers = @ \cup {p}]

\* RUnlock leaving the lock held
RUnlockSkipped(l, p) == l

\* s.lk.RUnlock() by caller p
RUnlock(l, p) == [l EXCEPT !.readers = @ \ {p}]

(***************************************************************************)
(* store.go: the Store facade                                              *)
(*                                                                         *)
(* A backend is outside the facade: each invocation of a backend method    *)
(* returns without error ("ok"; Exists returns "true" or "false"),         *)
(* returns an error ("err") or panics ("panic"), as the caller of the      *)
(* action chooses.  A download can also return a value together with its   *)
(* error ("errval"): the bytes read before the error, or a stream that     *)
(* holds no object.  What a backend returns names the Store field that     *)
(* holds the backend, so that the results of two backends differ.          *)
(***************************************************************************)
ReadOps == {"Stat", "DownloadBytes", "DownloadReader", "DownloadRangeBytes",
            "DownloadRangeReader"}

WriteOps == {"UploadData", "Upload", "UploadReader", "DeleteDirectory", "Delete"}

AllOps == ReadOps \cup WriteOps \cup {"Exists", "ListPrefix"}

Outcomes(op) == IF op = "Exists" THEN {"true", "false", "err", "panic"}
                ELSE IF op \in ReadOps \ {"Stat"} THEN {"ok", "err", "errval", "panic"}
                ELSE {"ok", "err", "panic"}

\* The zero value of the first result of op.
ZeroValue(op) == IF op = "Exists" THEN "false" ELSE "zero"

BackendValue(field) == field \o ":value"

BackendError(field) == field \o ":error"

\* What the backend held in Store field `field` returns for outcome o.
BackendReturn(field, op, o) ==
    CASE o = "ok"    -> [val |-> BackendValue(field), err |-> "nil"]
      [] o = "true"  -> [val |-> "true", err |-> "nil"]
      [] o = "false" -> [val |-> "false", err |-> "nil"]
      [] o = "errval" -> [val |-> field \o ":partial", err |-> BackendError(field)]
      [] OTHER       -> [val |-> ZeroValue(op), err |-> BackendError(field)]

\* One invocation of a backend method, and how it ended.
Invocation(field, op, p, offset, size, o) ==
    [store |-> field, op |-> op, key |-> p, offset |-> offset, size |-> size,
     out |-> o]

Returned(val, err, invoked) ==
    [res |-> [val |-> val, err |-> err, panic |-> FALSE], calls |-> invoked]

Panicked(op, invoked) ==
    [res |-> [val |-> ZeroValue(op), err |-> "nil", panic |-> TRUE], calls |-> invoked]

UnsupportedProtocol == "unsupported file path protocol"

\* Store.getStoreByKey(key): [s, st, rt, p, err]; s is the Store the method
\* leaves, st and rt are the Store field whose backend is returned, "nil"
\* for a nil Interface.  c is what GetPathProtocol(key) returned.
Ref(s, f) == IF s[f] = "nil" THEN "nil" ELSE f

Routed(s, st, rt, c, err) == [s |-> s, st |-> st, rt |-> rt, p |-> c.key, err |-> err]

\* RouteByProtocol making the reader the primary of a protocol that has none
RouteByProtocolAdoptsReader(s, c) ==
    IF c.err # "nil" THEN Routed(s, "nil", "nil", c, c.err)
    ELSE IF c.pp = QiniuProtocol
    THEN IF s.qiniuStore = "nil" /\ s.qiniuReaderStore = "nil"
         THEN Routed(s, "nil", "nil", c, c.pp \o " " \o ErrNotConfigured)
         ELSE IF s.qiniuStore = "nil"
         THEN Routed([s EXCEPT !.qiniuStore = s.qiniuReaderStore],
                     "qiniuStore", "qiniuReaderStore", c, "nil")
         ELSE Routed(s, Ref(s, "qiniuStore"), Ref(s, "qiniuReaderStore"), c, "nil")
    ELSE IF c.pp = S3Protocol
    THEN IF s.s3Store = "nil" /\ s.s3ReaderStore = "nil"
         THEN Routed(s, "nil", "nil", c, c.pp \o " " \o ErrNotConfigured)
         ELSE IF s.s3Store = "nil"
         THEN Routed([s EXCEPT !.s3Store = s.s3ReaderStore],
                     "s3Store", "s3ReaderStore", c, "nil")
         ELSE Routed(s, Ref(s, "s3Store"), Ref(s, "s3ReaderStore"), c, "nil")
    ELSE IF c.pp = OSProtocol
    THEN Routed(s, Ref(s, "osStore"), "nil", c, "nil")
    ELSE Routed(s, "nil", "nil", c, UnsupportedProtocol)

\* RouteByProtocol giving an s3 key the reader of qiniu as its fallback
RouteByProtocolSharedReader(s, c) ==
    IF c.err # "nil" THEN Routed(s, "nil", "nil", c, c.err)
    ELSE IF c.pp = QiniuProtocol
    THEN IF s.qiniuStore = "nil" /\ s.qiniuReaderStore = "nil"
         THEN Routed(s, "nil", "nil", c, c.pp \o " " \o ErrNotConfigured)
         ELSE Routed(s, Ref(s, "qiniuStore"), Ref(s, "qiniuReaderStore"), c, "nil")
    ELSE IF c.pp = S3Protocol
    THEN IF s.s3Store = "nil" /\ s.s3ReaderStore = "nil"
         THEN Routed(s, "nil", "nil", c, c.pp \o " " \o ErrNotConfigured)
         ELSE Routed(s, Ref(s, "s3Store"), Ref(s, "qiniuReaderStore"), c, "nil")
    ELSE IF c.pp = OSProtocol
    THEN Routed(s, Ref(s, "osStore"), "nil", c, "nil")
    ELSE Routed(s, "nil", "nil", c, UnsupportedProtocol)

\* RouteByProtocol with the default case of the switch returning the local
\* filesystem backend
RouteByProtocolUnknownAsOS(s, c) ==
    IF c.err # "nil" THEN Routed(s, "nil", "nil", c, c.err)
    ELSE IF c.pp = QiniuProtocol
    THEN IF s.qiniuStore = "nil" /\ s.qiniuReaderStore = "nil"
         THEN Routed(s, "nil", "nil", c, c.pp \o " " \o ErrNotConfigured)
         ELSE Routed(s, Ref(s, "qiniuStore"), Ref(s, "qiniuReaderStore"), c, "nil")
    ELSE IF c.pp = S3Protocol
    THEN IF s.s3Store = "nil" /\ s.s3ReaderStore = "nil"
         THEN Routed(s, "nil", "nil", c, c.pp \o " " \o ErrNotConfigured)
         ELSE Routed(s, Ref(s, "s3Store"), Ref(s, "s3ReaderStore"), c, "nil")
    ELSE Routed(s, Ref(s, "osStore"), "nil", c, "nil")

\* RouteByProtocol without the test that neither backend is configured
RouteByProtocolUnchecked(s, c) ==
    IF c.err # "nil" THEN Routed(s, "nil", "nil", c, c.err)
    ELSE IF c.pp = QiniuProtocol
    THEN Routed(s, Ref(s, "qiniuStore"), Ref(s, "qiniuReaderStore"), c, "nil")
    ELSE IF c.pp = S3Protocol
    THEN Routed(s, Ref(s, "s3Store"), Ref(s, "s3ReaderStore"), c, "nil")
    ELSE IF c.pp = OSProtocol
    THEN Routed(s, Ref(s, "osStore"), "nil", c, "nil")
    ELSE Routed(s, "nil", "nil", c, UnsupportedProtocol)

RouteByProtocol(s, c) ==
    IF c.err # "nil" THEN Routed(s, "nil", "nil", c, c.err)
    ELSE IF c.pp = QiniuProtocol
    THEN IF s.qiniuStore = "nil" /\ s.qiniuReaderStore = "nil"
         THEN Routed(s, "nil", "nil", c, c.pp \o " " \o ErrNotConfigured)
         ELSE Routed(s, Ref(s, "qiniuStore"), Ref(s, "qiniuReaderStore"), c, "nil")
    ELSE IF c.pp = S3Protocol
    THEN IF s.s3Store = "nil" /\ s.s3ReaderStore = "nil"
         THEN Routed(s, "nil", "nil", c, c.pp \o " " \o ErrNotConfigured)
         ELSE Routed(s, Ref(s, "s3Store"), Ref(s, "s3ReaderStore"), c, "nil")
    ELSE IF c.pp = OSProtocol
    THEN Routed(s, Ref(s, "osStore"), "nil", c, "nil")
    ELSE Routed(s, "nil", "nil", c, UnsupportedProtocol)

getStoreByKey(s, key) == RouteByProtocol(s, GetPathProtocol(key))

\* PrimaryOnlyRouted retrying on the reader after an error of the primary
PrimaryOnlyRoutedRetries(g, op, o) ==
    IF g.err # "nil" THEN Returned(ZeroValue(op), g.err, <<>>)
    ELSE IF g.st = "nil" THEN Returned(ZeroValue(op), ErrNotConfigured, <<>>)
    ELSE IF o = "panic" THEN Panicked(op, <<Invocation(g.st, op, g.p, 0, 0, o)>>)
    ELSE IF o = "err" /\ g.rt # "nil"
    THEN Returned(BackendReturn(g.rt, op, o).val, BackendReturn(g.rt, op, o).err,
                  <<Invocation(g.st, op, g.p, 0, 0, o),
                    Invocation(g.rt, op, g.p, 0, 0, o)>>)
    ELSE Returned(BackendReturn(g.st, op, o).val, BackendReturn(g.st, op, o).err,
                  <<Invocation(g.st, op, g.p, 0, 0, o)>>)

\* PrimaryOnlyRouted using the reader when there is no primary
PrimaryOnlyRoutedNilUsesReader(g, op, o) ==
    IF g.err # "nil" THEN Returned(ZeroValue(op), g.err, <<>>)
    ELSE IF g.st = "nil" /\ g.rt = "nil"
    THEN Returned(ZeroValue(op), ErrNotConfigured, <<>>)
    ELSE IF g.st = "nil"
    THEN IF o = "panic" THEN Panicked(op, <<Invocation(g.rt, op, g.p, 0, 0, o)>>)
         ELSE Returned(BackendReturn(g.rt, op, o).val, BackendReturn(g.rt, op, o).err,
                       <<Invocation(g.rt, op, g.p, 0, 0, o)>>)
    ELSE IF o = "panic" THEN Panicked(op, <<Invocation(g.st, op, g.p, 0, 0, o)>>)
    ELSE Returned(BackendReturn(g.st, op, o).val, BackendReturn(g.st, op, o).err,
                  <<Invocation(g.st, op, g.p, 0, 0, o)>>)

\* The body shared by Store.ListPrefix, UploadData, Upload, UploadReader,
\* DeleteDirectory and Delete, after getStoreByKey returned g: the primary
\* only, and no recover.
PrimaryOnlyRouted(g, op, o) ==
    IF g.err # "nil" THEN Returned(ZeroValue(op), g.err, <<>>)
    ELSE IF g.st = "nil" THEN Returned(ZeroValue(op), ErrNotConfigured, <<>>)
    ELSE IF o = "panic" THEN Panicked(op, <<Invocation(g.st, op, g.p, 0, 0, o)>>)
    ELSE Returned(BackendReturn(g.st, op, o).val, BackendReturn(g.st, op, o).err,
                  <<Invocation(g.st, op, g.p, 0, 0, o)>>)

PrimaryOnly(s, op, key, o) == PrimaryOnlyRouted(getStoreByKey(s, key), op, o)

\* ExistsRouted refusing a protocol that has no primary
ExistsRoutedNeedsPrimary(g, oP, oF) ==
    LET c1 == IF g.st # "nil" THEN <<Invocation(g.st, "Exists", g.p, 0, 0, oP)>> ELSE <<>>
        r1 == BackendReturn(g.st, "Exists", oP)
        c2 == c1 \o <<Invocation(g.rt, "Exists", g.p, 0, 0, oF)>>
        r2 == BackendReturn(g.rt, "Exists", oF)
    IN  IF g.err # "nil" THEN Returned("false", g.err, <<>>)
        ELSE IF g.st = "nil" THEN Returned("false", ErrNotConfigured, <<>>)
        ELSE IF oP = "panic" THEN Returned("false", "recover", c1)
        ELSE IF r1.err # "nil" THEN Returned("false", r1.err, c1)
        ELSE IF r1.val = "true" THEN Returned("true", "nil", c1)
        ELSE IF g.rt # "nil"
        THEN IF oF = "panic" THEN Returned("false", "recover", c2)
             ELSE Returned(r2.val, r2.err, c2)
        ELSE Returned("false", "nil", c1)

\* ExistsRouted asking the reader after an error of the primary, as the
\* downloads do
ExistsRoutedFallbackOnError(g, oP, oF) ==
    LET c1 == IF g.st # "nil" THEN <<Invocation(g.st, "Exists", g.p, 0, 0, oP)>> ELSE <<>>
        r1 == BackendReturn(g.st, "Exists", oP)
        c2 == c1 \o <<Invocation(g.rt, "Exists", g.p, 0, 0, oF)>>
        r2 == BackendReturn(g.rt, "Exists", oF)
    IN  IF g.err # "nil" THEN Returned("false", g.err, <<>>)
        ELSE IF g.st # "nil" /\ oP = "panic" THEN Returned("false", "recover", c1)
        ELSE IF g.st # "nil" /\ r1.err # "nil" /\ g.rt = "nil"
        THEN Returned("false", r1.err, c1)
        ELSE IF g.st # "nil" /\ r1.err = "nil" /\ r1.val = "true"
        THEN Returned("true", "nil", c1)
        ELSE IF g.rt # "nil"
        THEN IF oF = "panic" THEN Returned("false", "recover", c2)
             ELSE Returned(r2.val, r2.err, c2)
        ELSE Returned("false", "nil", c1)

\* Store.Exists(key) after getStoreByKey returned g; oP and oF are the
\* outcomes of the primary and of the reader
ExistsRouted(g, oP, oF) ==
    LET c1 == IF g.st # "nil" THEN <<Invocation(g.st, "Exists", g.p, 0, 0, oP)>> ELSE <<>>
        r1 == BackendReturn(g.st, "Exists", oP)
        c2 == c1 \o <<Invocation(g.rt, "Exists", g.p, 0, 0, oF)>>
        r2 == BackendReturn(g.rt, "Exists", oF)
    IN  IF g.err # "nil" THEN Returned("false", g.err, <<>>)
        ELSE IF g.st # "nil" /\ oP = "panic" THEN Returned("false", "recover", c1)
        ELSE IF g.st # "nil" /\ r1.err # "nil" THEN Returned("false", r1.err, c1)
        ELSE IF g.st # "nil" /\ r1.val = "true" THEN Returned("true", "nil", c1)
        ELSE IF g.rt # "nil"
        THEN IF oF = "panic" THEN Returned("false", "recover", c2)
             ELSE Returned(r2.val, r2.err, c2)
        ELSE Returned("false", "nil", c1)

Exists(s, key, oP, oF) == ExistsRouted(getStoreByKey(s, key), oP, oF)

\* ReadRouted without the deferred recover
ReadRoutedNoRecover(g, op, offset, size, oP, oF) ==
    LET c1 == IF g.st # "nil" THEN <<Invocation(g.st, op, g.p, offset, size, oP)>> ELSE <<>>
        r1 == IF g.st # "nil" THEN BackendReturn(g.st, op, oP)
              ELSE [val |-> ZeroValue(op), err |-> "nil"]
        c2 == c1 \o <<Invocation(g.rt, op, g.p, offset, size, oF)>>
        r2 == BackendReturn(g.rt, op, oF)
    IN  IF g.err # "nil" THEN Returned(ZeroValue(op), g.err, <<>>)
        ELSE IF g.st # "nil" /\ oP = "panic" THEN Panicked(op, c1)
        ELSE IF g.st # "nil" /\ r1.err = "nil" THEN Returned(r1.val, "nil", c1)
        ELSE IF g.rt # "nil"
        THEN IF oF = "panic" THEN Panicked(op, c2)
             ELSE Returned(r2.val, r2.err, c2)
        ELSE Returned(r1.val, r1.err, c1)

\* ReadRouted without the reader
ReadRoutedPrimaryOnly(g, op, offset, size, oP, oF) ==
    LET c1 == IF g.st # "nil" THEN <<Invocation(g.st, op, g.p, offset, size, oP)>> ELSE <<>>
        r1 == IF g.st # "nil" THEN BackendReturn(g.st, op, oP)
              ELSE [val |-> ZeroValue(op), err |-> "nil"]
    IN  IF g.err # "nil" THEN Returned(ZeroValue(op), g.err, <<>>)
        ELSE IF g.st # "nil" /\ oP = "panic" THEN Returned(ZeroValue(op), "recover", c1)
        ELSE Returned(r1.val, r1.err, c1)

\* ReadRouted keeping the result of the primary when the reader fails too
ReadRoutedKeepsPrimaryError(g, op, offset, size, oP, oF) ==
    LET c1 == IF g.st # "nil" THEN <<Invocation(g.st, op, g.p, offset, size, oP)>> ELSE <<>>
        r1 == IF g.st # "nil" THEN BackendReturn(g.st, op, oP)
              ELSE [val |-> ZeroValue(op), err |-> "nil"]
        c2 == c1 \o <<Invocation(g.rt, op, g.p, offset, size, oF)>>
        r2 == BackendReturn(g.rt, op, oF)
    IN  IF g.err # "nil" THEN Returned(ZeroValue(op), g.err, <<>>)
        ELSE IF g.st # "nil" /\ oP = "panic" THEN Returned(ZeroValue(op), "recover", c1)
        ELSE IF g.st # "nil" /\ r1.err = "nil" THEN Returned(r1.val, "nil", c1)
        ELSE IF g.rt # "nil"
        THEN IF oF = "panic" THEN Returned(r1.val, "recover", c2)
             ELSE IF r2.err = "nil" \/ g.st = "nil" THEN Returned(r2.val, r2.err, c2)
             ELSE Returned(r1.val, r1.err, c2)
        ELSE Returned(r1.val, r1.err, c1)

\* ReadRouted without the early return after the primary succeeded
ReadRoutedAlwaysFallback(g, op, offset, size, oP, oF) ==
    LET c1 == IF g.st # "nil" THEN <<Invocation(g.st, op, g.p, offset, size, oP)>> ELSE <<>>
        r1 == IF g.st # "nil" THEN BackendReturn(g.st, op, oP)
              ELSE [val |-> ZeroValue(op), err |-> "nil"]
        c2 == c1 \o <<Invocation(g.rt, op, g.p, offset, size, oF)>>
        r2 == BackendReturn(g.rt, op, oF)
    IN  IF g.err # "nil" THEN Returned(ZeroValue(op), g.err, <<>>)
        ELSE IF g.st # "nil" /\ oP = "panic" THEN Returned(ZeroValue(op), "recover", c1)
        ELSE IF g.rt # "nil"
        THEN IF oF = "panic" THEN Returned(r1.val, "recover", c2)
             ELSE Returned(r2.val, r2.err, c2)
        ELSE Returned(r1.val, r1.err, c1)

\* The body shared by Store.Stat, DownloadBytes, DownloadReader,
\* DownloadRangeBytes and DownloadRangeReader, after getStoreByKey returned
\* g.  The results are named: a recovered panic leaves the value as it was
\* last assigned.
ReadRouted(g, op, offset, size, oP, oF) ==
    LET c1 == IF g.st # "nil" THEN <<Invocation(g.st, op, g.p, offset, size, oP)>> ELSE <<>>
        r1 == IF g.st # "nil" THEN BackendReturn(g.st, op, oP)
              ELSE [val |-> ZeroValue(op), err |-> "nil"]
        c2 == c1 \o <<Invocation(g.rt, op, g.p, offset, size, oF)>>
        r2 == BackendReturn(g.rt, op, oF)
    IN  IF g.err # "nil" THEN Returned(ZeroValue(op), g.err, <<>>)
        ELSE IF g.st # "nil" /\ oP = "panic" THEN Returned(ZeroValue(op), "recover", c1)
        ELSE IF g.st # "nil" /\ r1.err = "nil" THEN Returned(r1.val, "nil", c1)
        ELSE IF g.rt # "nil"
        THEN IF oF = "panic" THEN Returned(r1.val, "recover", c2)
             ELSE Returned(r2.val, r2.err, c2)
        ELSE Returned(r1.val, r1.err, c1)

\* A method of Store after its getStoreByKey returned g: the rest of the
\* method uses st, rt and p only.
MethodRouted(g, op, offset, size, oP, oF) ==
    IF op \in WriteOps \cup {"ListPrefix"} THEN PrimaryOnlyRouted(g, op, oP)
    ELSE IF op = "Exists" THEN ExistsRouted(g, oP, oF)
    ELSE ReadRouted(g, op, offset, size, oP, oF)

ReadWithFallback(s, op, key, offset, size, oP, oF) ==
    ReadRouted(getStoreByKey(s, key), op, offset, size, oP, oF)

(***************************************************************************)
(* os.go: OSStore over a file system                                       *)
(*                                                                         *)
(* The file system is a function from the paths of OSPaths to what is      *)
(* there: nothing, a directory, or a file and its bytes.  The root "/" is  *)
(* always a directory.  Keys are clean absolute paths, for which path.Dir  *)
(* is the parent and path.Join(dir, name) is dir/name.  A method returns   *)
(* the file system it leaves, its first result (a sequence: of bytes, of   *)
(* keys, or <<"true">>, <<"false">>) and its error.                        *)
(***************************************************************************)
Root == <<"/">>

\* path.Dir of a clean absolute path
pathDir(p) ==
    IF LastIndex(p, "/") <= 1 THEN Root ELSE SubSeq(p, 1, LastIndex(p, "/") - 1)

\* path.Base of a clean absolute path: FileInfo.Name()
pathBase(p) == IF p = Root THEN Root ELSE SubSeq(p, LastIndex(p, "/") + 1, Len(p))

\* path.Join(dir, name) of a clean absolute dir and a name
pathJoin(dir, name) == IF dir = Root THEN Root \o name ELSE dir \o <<"/">> \o name

NoEntry == [kind |-> "none", data |-> <<>>]

DirEntry == [kind |-> "dir", data |-> <<>>]

FileEntry(data) == [kind |-> "file", data |-> data]

Entry(f, p) == IF p = Root THEN DirEntry ELSE IF p \in DOMAIN f THEN f[p] ELSE NoEntry

\* The names a directory can hold, in the order os.ReadDir sorts them.
SortedNames == <<"a", "b", "d">>

\* os.Stat(p): [kind, size, err]
RECURSIVE osStat(_, _)
osStat(f, p) ==
    IF p = Root THEN [kind |-> "dir", data |-> <<>>, err |-> "nil"]
    ELSE LET up == osStat(f, pathDir(p))
         IN  IF up.err # "nil" THEN [kind |-> "none", data |-> <<>>, err |-> up.err]
             ELSE IF up.kind # "dir"
             THEN [kind |-> "none", data |-> <<>>, err |-> "ENOTDIR"]
             ELSE IF Entry(f, p).kind = "none"
             THEN [kind |-> "none", data |-> <<>>, err |-> "ENOENT"]
             ELSE [kind |-> Entry(f, p).kind, data |-> Entry(f, p).data, err |-> "nil"]

\* os.IsNotExist(err)
IsNotExist(err) == err = "ENOENT"

\* os.MkdirAll(dir, 0755): [fs, err]
RECURSIVE MkdirAll(_, _)
MkdirAll(f, dir) ==
    IF osStat(f, dir).err = "nil"
    THEN IF osStat(f, dir).kind = "dir" THEN [fs |-> f, err |-> "nil"]
         ELSE [fs |-> f, err |-> "ENOTDIR"]
    ELSE LET up == MkdirAll(f, pathDir(dir))
         IN  IF up.err # "nil" THEN [fs |-> f, err |-> up.err]
             ELSE [fs |-> [up.fs EXCEPT ![dir] = DirEntry], err |-> "nil"]

\* Opening name with O_CREATE|O_TRUNC and writing data to it, as os.WriteFile
\* does and as os.Create followed by io.Copy does: [fs, err]
osWriteFile(f, name, data) ==
    IF osStat(f, pathDir(name)).err # "nil"
    THEN [fs |-> f, err |-> osStat(f, pathDir(name)).err]
    ELSE IF osStat(f, pathDir(name)).kind # "dir" THEN [fs |-> f, err |-> "ENOTDIR"]
    ELSE IF Entry(f, name).kind = "dir" THEN [fs |-> f, err |-> "EISDIR"]
    ELSE [fs |-> [f EXCEPT ![name] = FileEntry(data)], err |-> "nil"]

\* File.Write(chunk) at offset off of a file holding data: the bytes of the
\* file after it; a write past the end leaves zero bytes in between, and a
\* write of no bytes leaves the file as it is.
osWriteAt(data, off, chunk) ==
    LET padded == data \o [i \in 1..(off - Len(data)) |-> "\\x00"]
    IN  IF chunk = <<>> THEN data
        ELSE SubSeq(padded, 1, off) \o chunk
             \o SubSeq(padded, off + Len(chunk) + 1, Len(padded))

\* The entries of directory dir, sorted by name.
osReadDir(f, dir) ==
    SelectSeq(SortedNames, LAMBDA n : Entry(f, pathJoin(dir, <<n>>)).kind # "none")

OSResult(f, val, err) == [fs |-> f, val |-> val, err |-> err]

AlreadyExists == "file already exists"

\* OSStore.ListPrefix(key)
OSStoreListPrefix(f, key) ==
    IF osStat(f, key).err # "nil" THEN OSResult(f, <<>>, osStat(f, key).err)
    ELSE IF osStat(f, key).kind # "dir"
    THEN OSResult(f, <<pathJoin(key, pathBase(key))>>, "nil")
    ELSE OSResult(f, [i \in 1..Len(osReadDir(f, key)) |->
                          pathJoin(key, <<osReadDir(f, key)[i]>>)], "nil")

\* OSStore.UploadData overwriting a file that exists
OSStoreUploadDataOverwrites(f, data, key) ==
    IF MkdirAll(f, pathDir(key)).err # "nil"
    THEN OSResult(f, <<>>, MkdirAll(f, pathDir(key)).err)
    ELSE LET g == MkdirAll(f, pathDir(key)).fs
         IN  IF osWriteFile(g, key, data).err # "nil"
             THEN OSResult(g, <<>>, "write file error")
             ELSE OSResult(osWriteFile(g, key, data).fs, <<>>, "nil")

\* OSStore.UploadData(data, key)
OSStoreUploadData(f, data, key) ==
    IF MkdirAll(f, pathDir(key)).err # "nil"
    THEN OSResult(f, <<>>, MkdirAll(f, pathDir(key)).err)
    ELSE LET g == MkdirAll(f, pathDir(key)).fs
         IN  IF ~IsNotExist(osStat(g, key).err)
             THEN IF osStat(g, key).err = "nil" THEN OSResult(g, <<>>, AlreadyExists)
                  ELSE OSResult(g, <<>>, osStat(g, key).err)
             ELSE IF osWriteFile(g, key, data).err # "nil"
             THEN OSResult(g, <<>>, "write file error")
             ELSE OSResult(osWriteFile(g, key, data).fs, <<>>, "nil")

\* OSStore.UploadReader(reader, _, key); the reader yields data and ends
OSStoreUploadReader(f, data, key) ==
    IF MkdirAll(f, pathDir(key)).err # "nil"
    THEN OSResult(f, <<>>, MkdirAll(f, pathDir(key)).err)
    ELSE LET g == MkdirAll(f, pathDir(key)).fs
         IN  IF ~IsNotExist(osStat(g, key).err)
             THEN IF osStat(g, key).err = "nil" THEN OSResult(g, <<>>, AlreadyExists)
                  ELSE OSResult(g, <<>>, osStat(g, key).err)
             ELSE IF osWriteFile(g, key, data).err # "nil"
             THEN OSResult(g, <<>>, "create file error")
             ELSE OSResult(osWriteFile(g, key, data).fs, <<>>, "nil")

\* st.IsDir() on the nil FileInfo that a failed os.Stat returns
NilDereference == "panic: invalid memory address or nil pointer dereference"

\* os.RemoveAll(dir): [fs, err]; dir and everything under it are removed,
\* but for the root, which stays and makes the call fail
osRemoveAll(f, dir) ==
    IF dir = Root
    THEN [fs |-> [p \in DOMAIN f |-> NoEntry], err |-> "EBUSY"]
    ELSE [fs |-> [p \in DOMAIN f |->
                     IF p = dir \/ HasPrefix(p, dir \o <<"/">>) THEN NoEntry ELSE f[p]],
          err |-> "nil"]

\* OSStore.DeleteDirectory(dir)
OSStoreDeleteDirectory(f, dir) ==
    IF IsNotExist(osStat(f, dir).err) THEN OSResult(f, <<>>, "nil")
    ELSE IF osStat(f, dir).err # "nil" THEN OSResult(f, <<>>, NilDereference)
    ELSE IF osStat(f, dir).kind # "dir" THEN OSResult(f, <<>>, "is not a directory")
    ELSE OSResult(osRemoveAll(f, dir).fs, <<>>, osRemoveAll(f, dir).err)

\* OSStore.Delete keeping the file
OSStoreDeleteKeepsFile(f, key) ==
    IF osStat(f, key).err # "nil" THEN OSResult(f, <<>>, osStat(f, key).err)
    ELSE OSResult(f, <<>>, "nil")

\* OSStore.Delete(key): os.Remove
OSStoreDelete(f, key) ==
    IF osStat(f, key).err # "nil" THEN OSResult(f, <<>>, osStat(f, key).err)
    ELSE IF key = Root THEN OSResult(f, <<>>, "EBUSY")
    ELSE IF osStat(f, key).kind = "dir" /\ osReadDir(f, key) # <<>>
    THEN OSResult(f, <<>>, "ENOTEMPTY")
    ELSE OSResult([f EXCEPT ![key] = NoEntry], <<>>, "nil")

\* OSStore.Exists(key)
OSStoreExists(f, key) ==
    IF ~IsNotExist(osStat(f, key).err)
    THEN IF osStat(f, key).err = "nil" THEN OSResult(f, <<"true">>, "nil")
         ELSE OSResult(f, <<"false">>, osStat(f, key).err)
    ELSE OSResult(f, <<"false">>, "nil")

\* OSStore.Upload(file, key)
OSStoreUpload(f, file, key) ==
    IF OSStoreExists(f, key).err # "nil" THEN OSResult(f, <<>>, "check exists")
    ELSE IF OSStoreExists(f, key).val = <<"true">> THEN OSResult(f, <<>>, AlreadyExists)
    ELSE IF osStat(f, file).err # "nil" THEN OSResult(f, <<>>, "open file error")
    ELSE IF osWriteFile(f, key, <<>>).err # "nil" THEN OSResult(f, <<>>, "create file error")
    ELSE IF osStat(f, file).kind = "dir"
    THEN OSResult(osWriteFile(f, key, <<>>).fs, <<>>, "copy file error")
    ELSE OSResult(osWriteFile(f, key, osStat(f, file).data).fs, <<>>, "nil")

\* OSStore.DownloadBytes(key)
OSStoreDownloadBytes(f, key) ==
    IF osStat(f, key).err # "nil" THEN OSResult(f, <<>>, osStat(f, key).err)
    ELSE IF osStat(f, key).kind = "dir" THEN OSResult(f, <<>>, "EISDIR")
    ELSE OSResult(f, osStat(f, key).data, "nil")

\* min(a, b)
Min(a, b) == IF a <= b THEN a ELSE b

\* The most bytes one File.Read returns: the read of an os.File is issued
\* for at most 1 GiB of the buffer.
maxRW == 1073741824

ErrClosed == "file already closed"

\* File.Read(buf) of an open file of flen bytes, or of an open directory,
\* at position pos, len(buf) being blen: [n, err]
osFileRead(kind, flen, pos, blen) ==
    IF blen = 0 THEN [n |-> 0, err |-> "nil"]
    ELSE IF kind = "dir" THEN [n |-> 0, err |-> "EISDIR"]
    ELSE IF pos >= flen THEN [n |-> 0, err |-> "EOF"]
    ELSE [n |-> Min(Min(blen, maxRW), flen - pos), err |-> "nil"]

\* File.Read(buf) of a file opened on data and sought to offset, len(buf)
\* being size: [n, buf, err]
osRead(data, offset, size) ==
    [n   |-> osFileRead("file", Len(data), offset, size).n,
     buf |-> SubSeq(data, offset + 1,
                    offset + osFileRead("file", Len(data), offset, size).n),
     err |-> osFileRead("file", Len(data), offset, size).err]

\* The bytes [from, from + n) of the file, or an error.
RangeResult(from, n, err) == [from |-> from, n |-> n, err |-> err]

\* OSStore.DownloadRangeBytes(key, offset, size) where key holds nothing, a
\* directory, or a file of flen bytes: which bytes of the file it returns
DownloadRangeBytesOf(kind, flen, offset, size) ==
    IF kind = "none" THEN RangeResult(0, 0, "ENOENT")
    ELSE IF osFileRead(kind, flen, offset, size).err # "nil"
    THEN RangeResult(0, 0, osFileRead(kind, flen, offset, size).err)
    ELSE IF osFileRead(kind, flen, offset, size).n # size
    THEN RangeResult(0, 0, "read size not matched")
    ELSE RangeResult(offset, size, "nil")

\* OSStore.DownloadRangeBytes(key, offset, size)
OSStoreDownloadRangeBytes(f, key, offset, size) ==
    LET st == osStat(f, key)
        r  == DownloadRangeBytesOf(st.kind, Len(st.data), offset, size)
    IN  IF st.err # "nil" THEN OSResult(f, <<>>, st.err)
        ELSE IF r.err # "nil" THEN OSResult(f, <<>>, r.err)
        ELSE OSResult(f, SubSeq(st.data, r.from + 1, r.from + r.n), "nil")

\* The stream of DownloadRangeReader: the open file (a file of len bytes, or
\* a directory) and its position pos, the bytes N that the LimitedReader
\* still lets through, and whether the file was closed.  from and size are
\* the arguments of the call, got the bytes handed out so far, reads the
\* calls of Read.
NoStream ==
    [state |-> "none", kind |-> "none", len |-> 0, pos |-> 0, N |-> 0,
     from |-> 0, size |-> 0, got |-> 0, reads |-> 0]

\* OSStore.DownloadRangeReader(key, offset, size) where key holds nothing, a
\* directory, or a file of flen bytes: [stream, err]; no byte is read yet
DownloadRangeReaderOf(kind, flen, offset, size) ==
    IF kind = "none" THEN [stream |-> NoStream, err |-> "ENOENT"]
    ELSE [stream |-> [state |-> "open", kind |-> kind, len |-> flen, pos |-> offset,
                      N |-> size, from |-> offset, size |-> size, got |-> 0,
                      reads |-> 0],
          err |-> "nil"]

\* rangeReaderCloser.Read(p), len(p) being blen: LimitedReader.Read, which
\* ends the stream when N is used up and else reads at most N bytes of the
\* file: [stream, n, err]
rangeReaderCloserRead(s, blen) ==
    LET r == IF s.state = "closed" THEN [n |-> 0, err |-> ErrClosed]
             ELSE osFileRead(s.kind, s.len, s.pos, Min(blen, s.N))
    IN  IF s.N <= 0
        THEN [stream |-> [s EXCEPT !.reads = @ + 1], n |-> 0, err |-> "EOF"]
        ELSE [stream |-> [s EXCEPT !.pos = @ + r.n, !.N = @ - r.n, !.got = @ + r.n,
                                   !.reads = @ + 1],
              n |-> r.n, err |-> r.err]

\* rangeReaderCloser.Close(): File.Close of the open file: [stream, err]
rangeReaderCloserClose(s) ==
    IF s.state = "closed" THEN [stream |-> s, err |-> ErrClosed]
    ELSE [stream |-> [s EXCEPT !.state = "closed"], err |-> "nil"]

\* OSStore.UploadData(data, key), len(data) being dlen, where the directory
\* of key exists and key holds nothing, a directory, or a file of flen
\* bytes: [kind, len, err], what key holds after it
UploadDataOf(kind, flen, dlen) ==
    IF kind # "none" THEN [kind |-> kind, len |-> flen, err |-> AlreadyExists]
    ELSE [kind |-> "file", len |-> dlen, err |-> "nil"]

\* OSStore.Delete(key) where key holds nothing, an empty directory, or a
\* file: [kind, len, err]
DeleteOf(kind, flen) ==
    IF kind = "none" THEN [kind |-> kind, len |-> flen, err |-> "ENOENT"]
    ELSE [kind |-> "none", len |-> 0, err |-> "nil"]

\* A method of OSStore.
OSStoreCall(f, op, key, data, file, offset, size) ==
    CASE op = "ListPrefix"          -> OSStoreListPrefix(f, key)
      [] op = "UploadData"          -> OSStoreUploadData(f, data, key)
      [] op = "Upload"              -> OSStoreUpload(f, file, key)
      [] op = "UploadReader"        -> OSStoreUploadReader(f, data, key)
      [] op = "DeleteDirectory"     -> OSStoreDeleteDirectory(f, key)
      [] op = "Delete"              -> OSStoreDelete(f, key)
      [] op = "Exists"              -> OSStoreExists(f, key)
      [] op = "DownloadBytes"       -> OSStoreDownloadBytes(f, key)
      [] op = "DownloadRangeBytes"  -> OSStoreDownloadRangeBytes(f, key, offset, size)

\* The Store NewStore("", "") returns when no variable is set: the local
\* filesystem backend only.
LocalStore == newStore("", "", [n \in EnvNames |-> "unset"]).store

\* The same method of a Store that holds no backend but osStore, after
\* getStoreByKey returned g: the key classified to the local filesystem
\* goes to osStore, which has no reader.  Without osStore, ListPrefix and
\* the writes return ErrNotConfigured; Exists and the reads skip both
\* backends and return their zero value and nil.
StoreCallRouted(f, g, op, data, file, offset, size) ==
    IF g.err # "nil"
    THEN OSResult(f, IF op = "Exists" THEN <<"false">> ELSE <<>>, g.err)
    ELSE IF g.st = "nil"
    THEN IF op \in WriteOps \cup {"ListPrefix"}
         THEN OSResult(f, <<>>, ErrNotConfigured)
         ELSE OSResult(f, IF op = "Exists" THEN <<"false">> ELSE <<>>, "nil")
    ELSE OSStoreCall(f, op, g.p, data, file, offset, size)

\* A call on OSStore itself, or on the Store.
CallVia(via, f, op, key, data, file, offset, size) ==
    IF via = "OSStore" THEN OSStoreCall(f, op, key, data, file, offset, size)
    ELSE StoreCallRouted(f, getStoreByKey(LocalStore, key), op, data, file, offset, size)

(***************************************************************************)
(* reader.go: Reader                                                       *)
(*                                                                         *)
(* rd holds the fields of the Reader: whether store, Offset and Size are   *)
(* nil, closed, and whether body is nil or an opened stream.  The store    *)
(* and the stream are outside the Reader: NewStore succeeds or fails,      *)
(* DownloadReader and DownloadRangeReader return a stream, an error, or a  *)
(* nil stream with a nil error (as a Store without backend for the key     *)
(* does), and a Read or a Close of the stream returns nil or an error, as  *)
(* the caller of the action chooses.  rio counts what was done to streams: *)
(* opened, failed and void are the opens that returned a stream, an error  *)
(* and neither, read and closed the calls of the stream's Read and Close.  *)
(* A call returns the Reader and the counts it leaves, and its error or    *)
(* the panic that ends it.                                                 *)
(***************************************************************************)
ReaderClosed == "file reader closed"

NewStoreFailed == "new store failed"

OpenFailed == "open failed"

ReaderResult(r, io, err) == [rd |-> r, rio |-> io, err |-> err]

\* NewReader(st, key, offset, size)
NewReader(st, offset, size) ==
    [store |-> st, offset |-> offset, size |-> size, closed |-> FALSE, body |-> "nil"]

\* Close that closes the stream at every call
ReaderCloseEveryCall(r, io, close) ==
    IF r.body # "nil"
    THEN ReaderResult([r EXCEPT !.closed = TRUE], [io EXCEPT !.closed = @ + 1], close)
    ELSE ReaderResult([r EXCEPT !.closed = TRUE], io, "nil")

\* func (r *Reader) Close() error
ReaderClose(r, io, close) ==
    IF ~r.closed
    THEN IF r.body # "nil"
         THEN ReaderResult([r EXCEPT !.closed = TRUE], [io EXCEPT !.closed = @ + 1], close)
         ELSE ReaderResult([r EXCEPT !.closed = TRUE], io, "nil")
    ELSE ReaderResult(r, io, "nil")

\* return r.body.Read(p)
bodyRead(r, io, read) == ReaderResult(r, [io EXCEPT !.read = @ + 1], read)

\* r.store.DownloadReader(r.Key) when Offset is nil, else
\* r.store.DownloadRangeReader(r.Key, *r.Offset, *r.Size), whose arguments
\* are evaluated before the call; then r.body = rc and the read, of a nil
\* body when the open returned a nil stream
ReaderOpen(r, io, open, read) ==
    LET how == IF r.offset = "nil" THEN "DownloadReader" ELSE "DownloadRangeReader"
    IN  IF r.offset # "nil" /\ r.size = "nil"
        THEN ReaderResult(r, io, NilDereference)
        ELSE IF open = "err"
        THEN ReaderResult(r, [io EXCEPT !.failed = @ + 1], OpenFailed)
        ELSE IF open = "nil"
        THEN ReaderResult(r, [io EXCEPT !.void = @ + 1], NilDereference)
        ELSE bodyRead([r EXCEPT !.body = how], [io EXCEPT !.opened = @ + 1], read)

\* func (r *Reader) Read(p []byte) (n int, err error)
ReaderRead(r, io, made, open, read) ==
    IF r.closed
    THEN ReaderResult(r, io, ReaderClosed)
    ELSE IF r.body = "nil"
         THEN IF r.store = "nil"
              THEN IF made = "err"
                   THEN ReaderResult(r, io, NewStoreFailed)
                   ELSE ReaderOpen([r EXCEPT !.store = "set"], io, open, read)
              ELSE ReaderOpen(r, io, open, read)
         ELSE bodyRead(r, io, read)

(***************************************************************************)
(* bounds and inputs                                                       *)
(***************************************************************************)
\* The longest body of a key given to the Store.
MaxKeyLen == 1

\* The largest offset of a range download.
MaxOffset == 1

\* The longest body of a path given to GetPathProtocol.
MaxPathLen == 2

SeqsUpTo(A, n) == UNION { [1..k -> A] : k \in 0..n }

SchemePrefixes == { <<>>, <<"q","i","n","i","u",":">>, <<"s","3",":">>,
                    <<"f","i","l","e",":">> }

\* A key given to the Store: a scheme prefix, the slashes (and host) that
\* follow it, and a body.
StoreLeads == { <<>>, <<"/">>, <<"/","/","h">>, <<"/","/","/">> }

StoreKeys ==
    { s \o l \o b : s \in SchemePrefixes, l \in StoreLeads,
                    b \in SeqsUpTo({"a", "/", "%"}, MaxKeyLen) }

Offsets == 0..MaxOffset

Sizes == {1, 2}

\* A path given to GetPathProtocol.
PathLeads == { <<>>, <<"/">>, <<"/","/">>, <<"/","/","/">> }

\* Bodies holding whole percent-escapes, in the path, the query and the
\* fragment.
EscapedBodies ==
    { <<"%","2","f">>, <<"a","%","2","F">>, <<"%","4","1","/","a">>,
      <<"a","#","%","2","f">>, <<"a","#","%","2">>, <<"a","?","%","#","a">>,
      <<"%","f","F">>, <<"%","2","g">>, <<"u","@","/","a">>, <<"h",":","2","/","a">>,
      <<"%","2","5","/","a">>, <<"u","@","h","/","a">> }

PathBodies ==
    SeqsUpTo({"a", "/", ":", "@", "%", "?", "#", "2"}, MaxPathLen) \cup EscapedBodies

PathInputs ==
    { s \o l \o b : s \in SchemePrefixes \cup { <<"S","3",":">> }, l \in PathLeads,
                    b \in PathBodies }

\* The longest key and the longest prefix given to isKeyStartsWithPrefix.
MaxNameLen == 3

\* The most prefixes in S3MultiStoreConfig.cfgs.
MaxTableSize == 2

Names == SeqsUpTo({"a", "b", "/"}, MaxNameLen)

TablePrefixes == { <<>>, <<"a">>, <<"a", "/">>, <<"a", "/", "b">>, <<"b">> }

\* The maps a configuration file can load: one entry for a prefix.
Tables ==
    { t \in SUBSET [prefix : TablePrefixes, endpoint : {"good", "bad"}] :
        /\ Cardinality(t) <= MaxTableSize
        /\ \A x, y \in t : x.prefix = y.prefix => x = y }

\* The longest content of a file.
MaxDataLen == 2

\* The paths of the file system, the root apart.
OSPaths == { <<"/","d">>, <<"/","d","/","a">>, <<"/","d","/","b">> }

EmptyFS == [p \in OSPaths |-> NoEntry]

Datas == SeqsUpTo({"x", "y"}, MaxDataLen)

RangeOffsets == 0..MaxDataLen

RangeSizes == 0..MaxDataLen

\* The keys given to OSStore, and the local keys given to the Store: the
\* paths, a path with an escaped letter, and a relative path.
CallKeys(via) ==
    IF via = "OSStore" THEN OSPaths
    ELSE OSPaths \cup { <<"/","d","/","%","6","1">>, <<"d">> }

NoRangeCall ==
    [op |-> "none", offset |-> 0, size |-> 0, from |-> 0, n |-> 0, err |-> "nil"]

\* The key holds nothing, no stream is open, and nothing was called.
NoRange == [kind |-> "none", len |-> 0, stream |-> NoStream, last |-> NoRangeCall]

NoOSCall ==
    [via |-> "none", op |-> "none", key |-> <<>>, data |-> <<>>, file |-> <<>>,
     offset |-> 0, size |-> 0, val |-> <<>>, err |-> "nil"]

Unlocked == [readers |-> {}, writer |-> FALSE]

NoReader ==
    [store |-> "nil", offset |-> "nil", size |-> "nil", closed |-> FALSE, body |-> "nil"]

NoStreams ==
    [opened |-> 0, failed |-> 0, void |-> 0, read |-> 0, closed |-> 0, calls |-> 0]

NoReaderCall == [op |-> "none", err |-> "nil"]

\* The getStore calls that run at once.
NumCallers == 2

LockProcs == 1..NumCallers

\* The keys of the concurrent getStore calls.
LockKeys == { <<"a", "/", "b">>, <<"b">>, <<"/">> }

\* The calls made on one Reader.
MaxReaderCalls == 5

(***************************************************************************)
(* the state machine                                                       *)
(***************************************************************************)
VARIABLES
    store,   \* the Store: the backend held in each of its five fields
    pc,      \* "idle", or "returned" while a caller holds the result of a call
    last,    \* the Store call that returned last: its arguments and result
    calls,   \* the backend methods that call invoked, in order
    sc,      \* the Store calls that run concurrently, and where each is
    pin,     \* the path given to GetPathProtocol
    pres,    \* what GetPathProtocol returned for pin
    punion,  \* what IsUnionPath returned for pin
    mkey,    \* the key given to isKeyStartsWithPrefix and to getStore
    mprefix, \* the prefix given to isKeyStartsWithPrefix
    mmatch,  \* what isKeyStartsWithPrefix returned for mkey and mprefix
    mcfgs,   \* S3MultiStoreConfig.cfgs: the configuration of each prefix
    mres,    \* what S3MultiStoreConfig.getStore returned for mkey
    nargs,   \* the two arguments of newStore
    nenv,    \* the environment newStore runs in
    nres,    \* what newStore returned
    fs,      \* the file system OSStore works on
    olast,   \* the OSStore call that returned last: its arguments and result
    race,    \* the uploads that run concurrently on one key, and where each is
    rng,     \* one key of OSStore by the length of its file, and a range stream
    lk,      \* S3MultiStoreConfig.lk: who holds the lock
    gs,      \* the getStore calls that run concurrently, and where each is
    rd,      \* the fields of a Reader
    rio,     \* what the Reader did to its store and to its stream so far
    rlast    \* the call of the Reader that returned last

storeVars == <<store, pc, last, calls, sc>>

pathVars == <<pin, pres, punion>>

multiVars == <<mkey, mprefix, mmatch, mcfgs, mres>>

newVars == <<nargs, nenv, nres>>

osVars == <<fs, olast, race, rng>>

lockVars == <<lk, gs>>

readerVars == <<rd, rio, rlast>>

vars == <<store, pc, last, calls, sc, pin, pres, punion, mkey, mprefix, mmatch, mcfgs, mres,
          nargs, nenv, nres, fs, olast, race, rng, lk, gs, rd, rio, rlast>>

NoCall ==
    [op |-> "none", key |-> <<>>, offset |-> 0, size |-> 0,
     res |-> [val |-> "zero", err |-> "nil", panic |-> FALSE]]

Pending == [pp |-> UnknownPathProtocol, key |-> <<>>, err |-> "pending"]

\* No Store method is being called.
IdleStore == store = NoStore /\ pc = "idle" /\ last = NoCall /\ calls = <<>> /\ sc = <<>>

\* Neither GetPathProtocol nor IsUnionPath is being called.
IdlePath == pin = <<>> /\ pres = Pending /\ punion = "pending"

\* No S3MultiStoreConfig is in use.
IdleMulti ==
    /\ mkey = <<>> /\ mprefix = <<>> /\ mmatch = "pending"
    /\ mcfgs = {} /\ mres = [st |-> "nil", err |-> <<"pending">>, from |-> {}]

\* newStore is not being called.
IdleNew ==
    /\ nargs = <<"", "">> /\ nenv = [n \in EnvNames |-> "unset"]
    /\ nres = [store |-> NoStore, err |-> "pending", used |-> NoSources]

\* No OSStore is in use.
IdleOS == fs = EmptyFS /\ olast = NoOSCall /\ race = <<>> /\ rng = NoRange

\* No getStore call is running.
IdleLock == lk = Unlocked /\ gs = <<>>

\* No Reader is in use.
IdleReader == rd = NoReader /\ rio = NoStreams /\ rlast = NoReaderCall

\* The Store after NewStore returned it, for some arguments and environment.
Init ==
    /\ store \in ConstructedStores
    /\ pc = "idle"
    /\ last = NoCall
    /\ calls = <<>>
    /\ sc = <<>>
    /\ IdlePath
    /\ IdleMulti
    /\ IdleNew
    /\ IdleOS
    /\ IdleLock
    /\ IdleReader

\* A call of a Store method returns r to its caller.
Return(op, key, offset, size, r) ==
    /\ pc' = "returned"
    /\ last' = [op |-> op, key |-> key, offset |-> offset, size |-> size, res |-> r.res]
    /\ calls' = r.calls
    /\ UNCHANGED <<store, sc, pathVars, multiVars, newVars, osVars, lockVars, readerVars>>

ListPrefix ==
    \E key \in StoreKeys, o \in Outcomes("ListPrefix") :
        /\ pc = "idle"
        /\ Return("ListPrefix", key, 0, 0, PrimaryOnly(store, "ListPrefix", key, o))

UploadData ==
    \E key \in StoreKeys, o \in Outcomes("UploadData") :
        /\ pc = "idle"
        /\ Return("UploadData", key, 0, 0, PrimaryOnly(store, "UploadData", key, o))

Upload ==
    \E key \in StoreKeys, o \in Outcomes("Upload") :
        /\ pc = "idle"
        /\ Return("Upload", key, 0, 0, PrimaryOnly(store, "Upload", key, o))

UploadReader ==
    \E key \in StoreKeys, o \in Outcomes("UploadReader") :
        /\ pc = "idle"
        /\ Return("UploadReader", key, 0, 0, PrimaryOnly(store, "UploadReader", key, o))

DeleteDirectory ==
    \E key \in StoreKeys, o \in Outcomes("DeleteDirectory") :
        /\ pc = "idle"
        /\ Return("DeleteDirectory", key, 0, 0, PrimaryOnly(store, "DeleteDirectory", key, o))

Delete ==
    \E key \in StoreKeys, o \in Outcomes("Delete") :
        /\ pc = "idle"
        /\ Return("Delete", key, 0, 0, PrimaryOnly(store, "Delete", key, o))

StoreExists ==
    \E key \in StoreKeys, oP \in Outcomes("Exists"), oF \in Outcomes("Exists") :
        /\ pc = "idle"
        /\ Return("Exists", key, 0, 0, Exists(store, key, oP, oF))

Stat ==
    \E key \in StoreKeys, oP \in Outcomes("Stat"), oF \in Outcomes("Stat") :
        /\ pc = "idle"
        /\ Return("Stat", key, 0, 0, ReadWithFallback(store, "Stat", key, 0, 0, oP, oF))

DownloadBytes ==
    \E key \in StoreKeys, oP \in Outcomes("DownloadBytes"),
       oF \in Outcomes("DownloadBytes") :
        /\ pc = "idle"
        /\ Return("DownloadBytes", key, 0, 0,
                  ReadWithFallback(store, "DownloadBytes", key, 0, 0, oP, oF))

DownloadReader ==
    \E key \in StoreKeys, oP \in Outcomes("DownloadReader"),
       oF \in Outcomes("DownloadReader") :
        /\ pc = "idle"
        /\ Return("DownloadReader", key, 0, 0,
                  ReadWithFallback(store, "DownloadReader", key, 0, 0, oP, oF))

DownloadRangeBytes ==
    \E key \in StoreKeys, offset \in Offsets, size \in Sizes,
       oP \in Outcomes("DownloadRangeBytes"), oF \in Outcomes("DownloadRangeBytes") :
        /\ pc = "idle"
        /\ Return("DownloadRangeBytes", key, offset, size,
                  ReadWithFallback(store, "DownloadRangeBytes", key, offset, size, oP, oF))

DownloadRangeReader ==
    \E key \in StoreKeys, offset \in Offsets, size \in Sizes,
       oP \in Outcomes("DownloadRangeReader"), oF \in Outcomes("DownloadRangeReader") :
        /\ pc = "idle"
        /\ Return("DownloadRangeReader", key, offset, size,
                  ReadWithFallback(store, "DownloadRangeReader", key, offset, size, oP, oF))

\* The caller is done with the result; the Store is as it was.
NextCall ==
    /\ pc = "returned"
    /\ pc' = "idle"
    /\ last' = NoCall
    /\ calls' = <<>>
    /\ UNCHANGED <<store, sc, pathVars, multiVars, newVars, osVars, lockVars, readerVars>>

Next ==
    \/ ListPrefix
    \/ UploadData
    \/ Upload
    \/ UploadReader
    \/ DeleteDirectory
    \/ Delete
    \/ StoreExists
    \/ Stat
    \/ DownloadBytes
    \/ DownloadReader
    \/ DownloadRangeBytes
    \/ DownloadRangeReader
    \/ NextCall

Spec == Init /\ [][Next]_vars

(***************************************************************************)
(* GetPathProtocol applied to every path of PathInputs                     *)
(***************************************************************************)
InitPath ==
    /\ pin \in PathInputs
    /\ pres = Pending
    /\ punion = "pending"
    /\ IdleStore
    /\ IdleMulti
    /\ IdleNew
    /\ IdleOS
    /\ IdleLock
    /\ IdleReader

Classify ==
    /\ pres = Pending
    /\ pres' = GetPathProtocol(pin)
    /\ UNCHANGED <<storeVars, pin, punion, multiVars, newVars, osVars, lockVars, readerVars>>

\* IsUnionPath(pin) returns
UnionPath ==
    /\ punion = "pending"
    /\ punion' = IF IsUnionPath(pin) THEN "true" ELSE "false"
    /\ UNCHANGED <<storeVars, pin, pres, multiVars, newVars, osVars, lockVars, readerVars>>

NextPath ==
    \/ Classify
    \/ UnionPath

SpecPath == InitPath /\ [][NextPath]_vars

(***************************************************************************)
(* isKeyStartsWithPrefix applied to every key and prefix of Names          *)
(***************************************************************************)
InitPrefix ==
    /\ mkey \in Names
    /\ mprefix \in Names
    /\ mmatch = "pending"
    /\ mcfgs = {}
    /\ mres = [st |-> "nil", err |-> <<"pending">>, from |-> {}]
    /\ IdleStore
    /\ IdlePath
    /\ IdleNew
    /\ IdleOS
    /\ IdleLock
    /\ IdleReader

KeyStartsWithPrefix ==
    /\ mmatch = "pending"
    /\ mmatch' = IF isKeyStartsWithPrefix(mkey, mprefix) THEN "true" ELSE "false"
    /\ UNCHANGED <<storeVars, pathVars, mkey, mprefix, mcfgs, mres, newVars, osVars, lockVars, readerVars>>

NextPrefix == KeyStartsWithPrefix

SpecPrefix == InitPrefix /\ [][NextPrefix]_vars

(***************************************************************************)
(* S3MultiStoreConfig.getStore applied to every table of Tables            *)
(***************************************************************************)
InitMulti ==
    /\ mkey \in Names
    /\ mprefix = <<>>
    /\ mmatch = "pending"
    /\ mcfgs \in Tables
    /\ mres = [st |-> "nil", err |-> <<"pending">>, from |-> {}]
    /\ IdleStore
    /\ IdlePath
    /\ IdleNew
    /\ IdleOS
    /\ IdleLock
    /\ IdleReader

\* getStore(mkey) returns; the range over the map visits it in some order
GetStore ==
    \E order \in RangeOrders(mcfgs) :
        /\ mres.err = <<"pending">>
        /\ mres' = getStore(order, mkey)
        /\ UNCHANGED <<storeVars, pathVars, mkey, mprefix, mmatch, mcfgs, newVars, osVars, lockVars, readerVars>>

NextMulti == GetStore

SpecMulti == InitMulti /\ [][NextMulti]_vars

(***************************************************************************)
(* newStore applied to every pair of arguments in every environment        *)
(***************************************************************************)
InitNew ==
    /\ nargs \in ArgPaths \X ArgPaths
    /\ nenv \in Envs
    /\ nres = [store |-> NoStore, err |-> "pending", used |-> NoSources]
    /\ IdleStore
    /\ IdlePath
    /\ IdleMulti
    /\ IdleOS
    /\ IdleLock
    /\ IdleReader

\* newStore(nargs[1], nargs[2]) returns
NewStore ==
    /\ nres.err = "pending"
    /\ nres' = newStore(nargs[1], nargs[2], nenv)
    /\ UNCHANGED <<storeVars, pathVars, multiVars, nargs, nenv, osVars, lockVars, readerVars>>

NextNew == NewStore

SpecNew == InitNew /\ [][NextNew]_vars

(***************************************************************************)
(* calls of OSStore, and of the Store on local keys, one after another     *)
(***************************************************************************)
Vias == {"OSStore", "Store"}

InitOS ==
    /\ fs = EmptyFS
    /\ olast = NoOSCall
    /\ race = <<>>
    /\ rng = NoRange
    /\ IdleStore
    /\ IdlePath
    /\ IdleMulti
    /\ IdleNew
    /\ IdleLock
    /\ IdleReader

\* A call returns r and leaves the file system r.fs.
OSReturn(via, op, key, data, file, offset, size, r) ==
    /\ fs' = r.fs
    /\ olast' = [via |-> via, op |-> op, key |-> key, data |-> data, file |-> file,
                 offset |-> offset, size |-> size, val |-> r.val, err |-> r.err]
    /\ UNCHANGED <<storeVars, pathVars, multiVars, newVars, race, rng, lockVars, readerVars>>

OSCall(via, op, key, data, file, offset, size) ==
    OSReturn(via, op, key, data, file, offset, size,
             CallVia(via, fs, op, key, data, file, offset, size))

OSListPrefix ==
    \E via \in Vias : \E key \in CallKeys(via) :
        /\ olast.op = "none"
        /\ OSCall(via, "ListPrefix", key, <<>>, <<>>, 0, 0)

OSUploadData ==
    \E via \in Vias : \E key \in CallKeys(via), data \in Datas :
        /\ olast.op = "none"
        /\ OSCall(via, "UploadData", key, data, <<>>, 0, 0)

OSUpload ==
    \E via \in Vias : \E key \in CallKeys(via), file \in OSPaths :
        /\ olast.op = "none"
        /\ OSCall(via, "Upload", key, <<>>, file, 0, 0)

OSUploadReader ==
    \E via \in Vias : \E key \in CallKeys(via), data \in Datas :
        /\ olast.op = "none"
        /\ OSCall(via, "UploadReader", key, data, <<>>, 0, 0)

OSDeleteDirectory ==
    \E via \in Vias : \E key \in CallKeys(via) :
        /\ olast.op = "none"
        /\ OSCall(via, "DeleteDirectory", key, <<>>, <<>>, 0, 0)

OSDelete ==
    \E via \in Vias : \E key \in CallKeys(via) :
        /\ olast.op = "none"
        /\ OSCall(via, "Delete", key, <<>>, <<>>, 0, 0)

OSExists ==
    \E via \in Vias : \E key \in CallKeys(via) :
        /\ olast.op = "none"
        /\ OSCall(via, "Exists", key, <<>>, <<>>, 0, 0)

OSDownloadBytes ==
    \E via \in Vias : \E key \in CallKeys(via) :
        /\ olast.op = "none"
        /\ OSCall(via, "DownloadBytes", key, <<>>, <<>>, 0, 0)

OSDownloadRangeBytes ==
    \E via \in Vias : \E key \in CallKeys(via), offset \in RangeOffsets, size \in RangeSizes :
        /\ olast.op = "none"
        /\ OSCall(via, "DownloadRangeBytes", key, <<>>, <<>>, offset, size)

\* The caller is done with the result; the file system stays as it is.
OSNextCall ==
    /\ olast.op # "none"
    /\ olast' = NoOSCall
    /\ UNCHANGED <<storeVars, pathVars, multiVars, newVars, fs, race, rng, lockVars,
                   readerVars>>

NextOS ==
    \/ OSListPrefix
    \/ OSUploadData
    \/ OSUpload
    \/ OSUploadReader
    \/ OSDeleteDirectory
    \/ OSDelete
    \/ OSExists
    \/ OSDownloadBytes
    \/ OSDownloadRangeBytes
    \/ OSNextCall

SpecOS == InitOS /\ [][NextOS]_vars

(***************************************************************************)
(* two uploads of OSStore running concurrently on one key                  *)
(*                                                                         *)
(* An upload is the sequence of its system calls: os.MkdirAll, os.Stat,    *)
(* the open that creates and truncates the file, and the writes to the     *)
(* opened file, which start at offset 0 of that opening.  os.WriteFile     *)
(* writes its data in one write; io.Copy writes what each Read of the      *)
(* reader gives, a part of the data that the reader chooses, until the     *)
(* reader ends or fails.  off is the offset of the caller's opened file.   *)
(***************************************************************************)
RaceProcs == {1, 2}

RaceKey == <<"/","d","/","a">>

RaceOps == {"UploadData", "UploadReader"}

InitRace ==
    /\ fs \in { EmptyFS, [EmptyFS EXCEPT ![pathDir(RaceKey)] = DirEntry] }
    /\ race \in [RaceProcs -> [op : RaceOps, data : Datas, pc : {"mkdir"}, off : {0},
                               err : {"nil"}]]
    /\ olast = NoOSCall
    /\ rng = NoRange
    /\ IdleStore
    /\ IdlePath
    /\ IdleMulti
    /\ IdleNew
    /\ IdleLock
    /\ IdleReader

RaceStep(p, f, at, off, err) ==
    /\ fs' = f
    /\ race' = [race EXCEPT ![p].pc = at, ![p].off = off, ![p].err = err]
    /\ UNCHANGED <<storeVars, pathVars, multiVars, newVars, olast, rng, lockVars, readerVars>>

\* err = os.MkdirAll(dir, 0755)
RaceMkdirAll ==
    \E p \in RaceProcs :
        /\ race[p].pc = "mkdir"
        /\ IF MkdirAll(fs, pathDir(RaceKey)).err # "nil"
           THEN RaceStep(p, fs, "done", 0, MkdirAll(fs, pathDir(RaceKey)).err)
           ELSE RaceStep(p, MkdirAll(fs, pathDir(RaceKey)).fs, "stat", 0, "nil")

\* _, err = os.Stat(key), and the returns that follow it
RaceStat ==
    \E p \in RaceProcs :
        /\ race[p].pc = "stat"
        /\ IF ~IsNotExist(osStat(fs, RaceKey).err)
           THEN IF osStat(fs, RaceKey).err = "nil"
                THEN RaceStep(p, fs, "done", 0, AlreadyExists)
                ELSE RaceStep(p, fs, "done", 0, osStat(fs, RaceKey).err)
           ELSE RaceStep(p, fs, "open", 0, "nil")

\* os.WriteFile and os.Create open the file with O_CREATE|O_TRUNC
RaceOpen ==
    \E p \in RaceProcs :
        /\ race[p].pc = "open"
        /\ IF osWriteFile(fs, RaceKey, <<>>).err # "nil"
           THEN RaceStep(p, fs, "done", 0,
                         IF race[p].op = "UploadData" THEN "write file error"
                         ELSE "create file error")
           ELSE RaceStep(p, osWriteFile(fs, RaceKey, <<>>).fs, "write", 0, "nil")

\* the write of os.WriteFile, and the return of nil
RaceWrite ==
    \E p \in RaceProcs :
        /\ race[p].pc = "write"
        /\ race[p].op = "UploadData"
        /\ RaceStep(p, [fs EXCEPT ![RaceKey] =
                            FileEntry(osWriteAt(fs[RaceKey].data, 0, race[p].data))],
                    "done", Len(race[p].data), "nil")

\* io.Copy: a Read of the reader gives the next n bytes, written at the
\* offset of the file
RaceCopy ==
    \E p \in RaceProcs : \E n \in 1..MaxDataLen :
        /\ race[p].pc = "write"
        /\ race[p].op = "UploadReader"
        /\ race[p].off + n <= Len(race[p].data)
        /\ RaceStep(p, [fs EXCEPT ![RaceKey] =
                            FileEntry(osWriteAt(fs[RaceKey].data, race[p].off,
                                                SubSeq(race[p].data, race[p].off + 1,
                                                       race[p].off + n)))],
                    "write", race[p].off + n, "nil")

\* io.Copy: the reader ends, and UploadReader returns nil
RaceCopyEnd ==
    \E p \in RaceProcs :
        /\ race[p].pc = "write"
        /\ race[p].op = "UploadReader"
        /\ race[p].off = Len(race[p].data)
        /\ RaceStep(p, fs, "done", race[p].off, "nil")

\* io.Copy: a Read of the reader fails
RaceCopyFails ==
    \E p \in RaceProcs :
        /\ race[p].pc = "write"
        /\ race[p].op = "UploadReader"
        /\ race[p].off < Len(race[p].data)
        /\ RaceStep(p, fs, "done", race[p].off, "write file error")

NextRace ==
    \/ RaceMkdirAll
    \/ RaceStat
    \/ RaceOpen
    \/ RaceWrite
    \/ RaceCopy
    \/ RaceCopyEnd
    \/ RaceCopyFails

SpecRace == InitRace /\ [][NextRace]_vars

(***************************************************************************)
(* range downloads of OSStore from one key, by the lengths of the files    *)
(*                                                                         *)
(* A file of a gibibyte is not written out byte by byte: rng holds what    *)
(* the key holds (nothing, an empty directory, or a file of len bytes, the *)
(* data of the UploadData that put it there), and a range download returns *)
(* the part [from, from + n) of that data.  The stream of                  *)
(* DownloadRangeReader stays with its caller, who reads it with buffers of *)
(* any length and closes it, while other calls go on: the open file keeps  *)
(* the bytes it was opened on when the key is deleted.  last is the call   *)
(* that returned last.                                                     *)
(***************************************************************************)
MaxStreamReads == 3

RangeLens == {0, 1, maxRW, maxRW + 1, maxRW + 2}

RangeOffs == {0, 1}

RangeNs == {0, 1, maxRW, maxRW + 1}

RangeBufs == {0, 1, maxRW + 2}

InitRange ==
    /\ rng \in {[NoRange EXCEPT !.kind = kind] : kind \in {"none", "dir"}}
    /\ fs = EmptyFS
    /\ olast = NoOSCall
    /\ race = <<>>
    /\ IdleStore
    /\ IdlePath
    /\ IdleMulti
    /\ IdleNew
    /\ IdleLock
    /\ IdleReader

\* What the other specifications hold.
rangeOthers ==
    <<storeVars, pathVars, multiVars, newVars, fs, olast, race, lockVars, readerVars>>

\* A call has returned; the key and the stream are left as in now.
RangeReturned(now, op, offset, size, from, n, err) ==
    [now EXCEPT !.last = [op |-> op, offset |-> offset, size |-> size,
                          from |-> from, n |-> n, err |-> err]]

RangeUploadData ==
    \E dlen \in RangeLens :
        LET r == UploadDataOf(rng.kind, rng.len, dlen)
        IN  /\ rng' = RangeReturned([rng EXCEPT !.kind = r.kind, !.len = r.len],
                                    "UploadData", 0, dlen, 0, 0, r.err)
            /\ UNCHANGED rangeOthers

RangeDelete ==
    LET r == DeleteOf(rng.kind, rng.len)
    IN  /\ rng' = RangeReturned([rng EXCEPT !.kind = r.kind, !.len = r.len],
                                "Delete", 0, 0, 0, 0, r.err)
        /\ UNCHANGED rangeOthers

RangeDownloadRangeBytes ==
    \E offset \in RangeOffs, size \in RangeNs :
        LET r == DownloadRangeBytesOf(rng.kind, rng.len, offset, size)
        IN  /\ rng' = RangeReturned(rng, "DownloadRangeBytes", offset, size,
                                    r.from, r.n, r.err)
            /\ UNCHANGED rangeOthers

\* The call returns the stream, or the error of the open; a caller holds
\* one stream at a time.
RangeDownloadRangeReader ==
    \E offset \in RangeOffs, size \in RangeNs :
        LET r == DownloadRangeReaderOf(rng.kind, rng.len, offset, size)
        IN  /\ rng.stream.state \in {"none", "closed"}
            /\ rng' = RangeReturned(
                          IF r.err = "nil" THEN [rng EXCEPT !.stream = r.stream] ELSE rng,
                          "DownloadRangeReader", offset, size, 0, 0, r.err)
            /\ UNCHANGED rangeOthers

\* The caller reads the stream into a buffer of blen bytes.
RangeStreamRead ==
    \E blen \in RangeBufs :
        LET r == rangeReaderCloserRead(rng.stream, blen)
        IN  /\ rng.stream.state # "none"
            /\ rng.stream.reads < MaxStreamReads
            /\ rng' = RangeReturned([rng EXCEPT !.stream = r.stream], "Read", 0, blen,
                                    rng.stream.pos, r.n, r.err)
            /\ UNCHANGED rangeOthers

\* The caller closes the stream.
RangeStreamClose ==
    LET r == rangeReaderCloserClose(rng.stream)
    IN  /\ rng.stream.state # "none"
        /\ rng' = RangeReturned([rng EXCEPT !.stream = r.stream], "Close", 0, 0, 0, 0,
                                r.err)
        /\ UNCHANGED rangeOthers

NextRange ==
    \/ RangeUploadData
    \/ RangeDelete
    \/ RangeDownloadRangeBytes
    \/ RangeDownloadRangeReader
    \/ RangeStreamRead
    \/ RangeStreamClose

SpecRange == InitRange /\ [][NextRange]_vars

(***************************************************************************)
(* getStore calls running concurrently on one S3MultiStoreConfig           *)
(***************************************************************************)
InitLock ==
    /\ lk = Unlocked
    /\ gs \in [LockProcs -> [key : LockKeys, pc : {"start"},
                             sel : {[config |-> NoConfig, ok |-> FALSE]},
                             res : {[st |-> "nil", err |-> <<"pending">>, from |-> {}]}]]
    /\ mcfgs \in Tables
    /\ mkey = <<>> /\ mprefix = <<>> /\ mmatch = "pending"
    /\ mres = [st |-> "nil", err |-> <<"pending">>, from |-> {}]
    /\ IdleStore
    /\ IdlePath
    /\ IdleNew
    /\ IdleOS
    /\ IdleReader

\* s.lk.RLock(); defer s.lk.RUnlock()
GetStoreRLock ==
    \E p \in LockProcs :
        /\ gs[p].pc = "start"
        /\ CanRLock(lk)
        /\ lk' = RLock(lk, p)
        /\ gs' = [gs EXCEPT ![p].pc = "locked"]
        /\ UNCHANGED <<storeVars, pathVars, multiVars, newVars, osVars, readerVars>>

\* cfg, ok := s.selectConfig(s.cfgs, key)
GetStoreSelect ==
    \E p \in LockProcs : \E order \in RangeOrders(mcfgs) :
        /\ gs[p].pc = "locked"
        /\ gs' = [gs EXCEPT ![p].pc = "selected",
                            ![p].sel = defaultSelectConfigCallbackFunc(order, gs[p].key)]
        /\ UNCHANGED <<storeVars, pathVars, multiVars, newVars, osVars, lk, readerVars>>

\* the return of the error or of NewS3Store(cfg), and the deferred RUnlock
GetStoreReturn ==
    \E p \in LockProcs :
        /\ gs[p].pc = "selected"
        /\ gs' = [gs EXCEPT ![p].pc = "done",
                            ![p].res = getStoreOfSelected(gs[p].sel, gs[p].key)]
        /\ lk' = RUnlock(lk, p)
        /\ UNCHANGED <<storeVars, pathVars, multiVars, newVars, osVars, readerVars>>

NextLock ==
    \/ GetStoreRLock
    \/ GetStoreSelect
    \/ GetStoreReturn

\* A goroutine that can run does run.
SpecLock == InitLock /\ [][NextLock]_vars /\ WF_vars(NextLock)

(***************************************************************************)
(* Read and Close calls on one Reader, one after another                   *)
(***************************************************************************)
InitReader ==
    /\ rd \in {NewReader(st, offset, size) :
                 st \in {"nil", "set"}, offset \in {"nil", "set"}, size \in {"nil", "set"}}
    /\ rio = NoStreams
    /\ rlast = NoReaderCall
    /\ IdleStore
    /\ IdlePath
    /\ IdleMulti
    /\ IdleNew
    /\ IdleOS
    /\ IdleLock

ReaderReturn(op, r) ==
    /\ rd' = r.rd
    /\ rio' = [r.rio EXCEPT !.calls = @ + 1]
    /\ rlast' = [op |-> op, err |-> r.err]
    /\ UNCHANGED <<storeVars, pathVars, multiVars, newVars, osVars, lockVars>>

Read ==
    \E made \in {"ok", "err"} : \E open \in {"ok", "err", "nil"} :
    \E read \in {"nil", "EOF", "read failed"} :
        /\ rio.calls < MaxReaderCalls
        /\ ReaderReturn("Read", ReaderRead(rd, rio, made, open, read))

Close ==
    \E close \in {"nil", "close failed"} :
        /\ rio.calls < MaxReaderCalls
        /\ ReaderReturn("Close", ReaderClose(rd, rio, close))

NextReader ==
    \/ Read
    \/ Close

SpecReader == InitReader /\ [][NextReader]_vars

(***************************************************************************)
(* calls of Store methods running concurrently on one Store                *)
(*                                                                         *)
(* A method reads the fields of the Store in its getStoreByKey and works   *)
(* on what that returned afterwards, so a call is two steps: the routing,  *)
(* and the invocations of the backends with the return.  An idle caller    *)
(* holds how its last call ended: "nil", "error" or "panic" ("none"        *)
(* before its first call).                                                 *)
(***************************************************************************)
FrameProcs == {1, 2}

FrameKeys ==
    { <<"q","i","n","i","u",":","/","a">>, <<"s","3",":","/","a">>, <<"/","a">>,
      <<"f","i","l","e",":","/","a">>, <<"s","3",":","/","/","h","/","a">> }

\* GetPathProtocol(key) of each key of FrameKeys
FrameClassified == [key \in FrameKeys |-> GetPathProtocol(key)]

NotRouted == getStoreByKey(NoStore, <<>>)

InitFrame ==
    /\ store \in ConstructedStores
    /\ sc = [p \in FrameProcs |-> [pc |-> "idle", op |-> "none", g |-> NotRouted,
                                   err |-> "none"]]
    /\ pc = "idle"
    /\ last = NoCall
    /\ calls = <<>>
    /\ IdlePath
    /\ IdleMulti
    /\ IdleNew
    /\ IdleOS
    /\ IdleLock
    /\ IdleReader

\* st, rt, p, err := s.getStoreByKey(key), the first statement of a method
FrameRouted(p, op, g) ==
    /\ store' = g.s
    /\ sc' = [sc EXCEPT ![p] = [pc |-> "routed", op |-> op, g |-> g, err |-> "none"]]
    /\ UNCHANGED <<pc, last, calls, pathVars, multiVars, newVars, osVars, lockVars,
                   readerVars>>

FrameGetStoreByKey ==
    \E p \in FrameProcs : \E op \in AllOps, key \in FrameKeys :
        /\ sc[p].pc = "idle"
        /\ FrameRouted(p, op, RouteByProtocol(store, FrameClassified[key]))

\* the rest of the method: the backends it invokes, and its return or panic
FrameReturned(p, r) ==
    /\ sc' = [sc EXCEPT ![p] = [pc |-> "idle", op |-> "none", g |-> NotRouted,
                                err |-> IF r.panic THEN "panic"
                                        ELSE IF r.err = "nil" THEN "nil" ELSE "error"]]
    /\ UNCHANGED <<store, pc, last, calls, pathVars, multiVars, newVars, osVars,
                   lockVars, readerVars>>

FrameReturn ==
    \E p \in FrameProcs : \E oP, oF \in Outcomes(sc[p].op) :
        /\ sc[p].pc = "routed"
        /\ FrameReturned(p, MethodRouted(sc[p].g, sc[p].op, 0, 1, oP, oF).res)

NextFrame ==
    \/ FrameGetStoreByKey
    \/ FrameReturn

SpecFrame == InitFrame /\ [][NextFrame]_vars

(***************************************************************************)
(* properties of the Store facade                                          *)
(***************************************************************************)
\* A call has returned to its caller with an error or a value.
Done == pc = "returned" /\ ~last.res.panic

\* What GetPathProtocol returns for the key of the call.
Classified == GetPathProtocol(last.key)

PrimaryOf(pp) ==
    CASE pp = QiniuProtocol -> "qiniuStore"
      [] pp = S3Protocol    -> "s3Store"
      [] OTHER              -> "osStore"

ReaderOf(pp) ==
    CASE pp = QiniuProtocol -> "qiniuReaderStore"
      [] pp = S3Protocol    -> "s3ReaderStore"
      [] OTHER              -> "none"

HasPrimary(pp) == store[PrimaryOf(pp)] # "nil"

HasReader(pp) == ReaderOf(pp) # "none" /\ store[ReaderOf(pp)] # "nil"

\* The key of the call classifies, without error, to qiniu or s3.
ObjectStoreKey == Classified.err = "nil" /\ Classified.pp \in {QiniuProtocol, S3Protocol}

\* The key of the call classifies to qiniu, s3 or the local filesystem.
RoutedKey ==
    Classified.err = "nil" /\ Classified.pp \in {QiniuProtocol, S3Protocol, OSProtocol}

\* The call invoked its primary backend first, and that invocation ended o.
PrimaryEnded(o) ==
    /\ Len(calls) >= 1
    /\ calls[1] = Invocation(PrimaryOf(Classified.pp), last.op, Classified.key,
                             last.offset, last.size, o)

\* The second invocation of the call is the same operation on the reader.
ReaderInvokedSecond ==
    /\ Len(calls) = 2
    /\ calls[2] = Invocation(ReaderOf(Classified.pp), last.op, Classified.key,
                             last.offset, last.size, calls[2].out)

Result(val, err) == [val |-> val, err |-> err, panic |-> FALSE]

\* The outcomes in which a backend returns an error, with or without a
\* value.
ErrorOutcomes == {"err", "errval"}

\* The call invoked its primary backend first, and that returned an error.
PrimaryFailed == \E o \in ErrorOutcomes : PrimaryEnded(o)

\* C1: Stat and the four downloads, on a qiniu or s3 key with both backends
\* configured: when the primary returns an error the same operation is
\* invoked on the reader, after the primary, with the same normalized key,
\* offset and size; when the reader succeeds its value is returned with no
\* error.
ReadFallsBackOnPrimaryError ==
    (/\ Done /\ last.op \in ReadOps /\ ObjectStoreKey
     /\ HasPrimary(Classified.pp) /\ HasReader(Classified.pp)
     /\ PrimaryFailed)
    => /\ ReaderInvokedSecond
       /\ calls[2].out = "ok"
            => last.res = Result(BackendValue(ReaderOf(Classified.pp)), "nil")

ReadFellBackAndSucceeded ==
    /\ Done /\ last.op = "DownloadRangeBytes" /\ last.offset = 1 /\ last.size = 2
    /\ last.key = <<"s","3",":","/","a">>
    /\ calls = << Invocation("s3Store", "DownloadRangeBytes", <<"a">>, 1, 2, "err"),
                  Invocation("s3ReaderStore", "DownloadRangeBytes", <<"a">>, 1, 2, "ok") >>
    /\ last.res = Result("s3ReaderStore:value", "nil")

\* C2, as claimed: whenever the primary's Exists returns an error and a
\* reader is configured, Exists is invoked on the reader with the same
\* normalized key and the caller receives the reader's result.
ExistsRetriedOnPrimaryError ==
    (/\ Done /\ last.op = "Exists" /\ ObjectStoreKey
     /\ HasPrimary(Classified.pp) /\ HasReader(Classified.pp)
     /\ PrimaryEnded("err"))
    => /\ ReaderInvokedSecond
       /\ last.res = Result(BackendReturn(calls[2].store, "Exists", calls[2].out).val,
                            BackendReturn(calls[2].store, "Exists", calls[2].out).err)

\* C2, amended: when the primary's Exists returns an error, Exists returns
\* false with that error and the reader is not invoked; the reader is invoked,
\* with the same normalized key, when the primary returns false without error
\* or there is no primary, and the caller then receives what the reader
\* returns.
ExistsFallsBackOnFalseOnly ==
    (Done /\ last.op = "Exists" /\ ObjectStoreKey)
    => /\ (HasPrimary(Classified.pp) /\ PrimaryEnded("err"))
            => /\ Len(calls) = 1
               /\ last.res = Result("false", BackendError(PrimaryOf(Classified.pp)))
       /\ (HasPrimary(Classified.pp) /\ HasReader(Classified.pp) /\ PrimaryEnded("false"))
            => /\ ReaderInvokedSecond
               /\ calls[2].out # "panic"
                    => last.res = Result(BackendReturn(calls[2].store, "Exists",
                                                      calls[2].out).val,
                                         BackendReturn(calls[2].store, "Exists",
                                                      calls[2].out).err)
       /\ (~HasPrimary(Classified.pp) /\ HasReader(Classified.pp))
            => /\ Len(calls) = 1
               /\ calls[1] = Invocation(ReaderOf(Classified.pp), "Exists", Classified.key,
                                        0, 0, calls[1].out)
               /\ calls[1].out # "panic"
                    => last.res = Result(BackendReturn(calls[1].store, "Exists",
                                                      calls[1].out).val,
                                         BackendReturn(calls[1].store, "Exists",
                                                      calls[1].out).err)

ExistsReturnedPrimaryError ==
    /\ Done /\ last.op = "Exists" /\ ObjectStoreKey
    /\ HasPrimary(Classified.pp) /\ HasReader(Classified.pp)
    /\ PrimaryEnded("err")
    /\ Len(calls) = 1
    /\ last.res = Result("false", BackendError(PrimaryOf(Classified.pp)))

\* C3, as claimed: whenever the primary's ListPrefix returns an error and a
\* reader is configured, ListPrefix is invoked on the reader with the same
\* normalized key.
ListPrefixRetriedOnPrimaryError ==
    (/\ Done /\ last.op = "ListPrefix" /\ ObjectStoreKey
     /\ HasPrimary(Classified.pp) /\ HasReader(Classified.pp)
     /\ PrimaryEnded("err"))
    => ReaderInvokedSecond

\* C3, amended: ListPrefix invokes the primary only, at most once, with the
\* normalized key; an error of the primary is returned as it is, also when a
\* reader is configured, and without a primary the call fails with
\* ErrNotConfigured and invokes nothing.
ListPrefixPrimaryOnly ==
    (pc = "returned" /\ last.op = "ListPrefix" /\ RoutedKey)
    => /\ Len(calls) <= 1
       /\ \A i \in 1..Len(calls) :
            calls[i] = Invocation(PrimaryOf(Classified.pp), "ListPrefix", Classified.key,
                                  0, 0, calls[i].out)
       /\ PrimaryEnded("err")
            => last.res = Result("zero", BackendError(PrimaryOf(Classified.pp)))
       /\ PrimaryEnded("ok")
            => last.res = Result(BackendValue(PrimaryOf(Classified.pp)), "nil")
       /\ (~HasPrimary(Classified.pp) /\ HasReader(Classified.pp))
            => calls = <<>> /\ last.res = Result("zero", ErrNotConfigured)

ListPrefixReturnedPrimaryError ==
    /\ Done /\ last.op = "ListPrefix" /\ ObjectStoreKey
    /\ HasPrimary(Classified.pp) /\ HasReader(Classified.pp)
    /\ PrimaryEnded("err")
    /\ Len(calls) = 1
    /\ last.res.err = BackendError(PrimaryOf(Classified.pp))

\* C4: Stat and the four downloads: when the primary and the configured
\* reader both return an error the caller receives the reader's error, not
\* the primary's; when no reader is configured and the primary returns an
\* error the caller receives the primary's error; the error is nil in
\* neither case.
ReadErrorIsTheLastBackendsError ==
    (/\ Done /\ last.op \in ReadOps /\ RoutedKey
     /\ HasPrimary(Classified.pp) /\ PrimaryFailed)
    => /\ (HasReader(Classified.pp) /\ Len(calls) = 2 /\ calls[2].out \in ErrorOutcomes)
            => /\ last.res.err = BackendError(ReaderOf(Classified.pp))
               /\ last.res.err # BackendError(PrimaryOf(Classified.pp))
               /\ last.res.err # "nil"
       /\ ~HasReader(Classified.pp)
            => /\ Len(calls) = 1
               /\ last.res.err = BackendError(PrimaryOf(Classified.pp))
               /\ last.res.err # "nil"

ReadFailedOnBothBackends ==
    /\ Done /\ last.op = "Stat" /\ ObjectStoreKey
    /\ HasPrimary(Classified.pp) /\ HasReader(Classified.pp)
    /\ PrimaryEnded("err")
    /\ Len(calls) = 2 /\ calls[2].out = "err"
    /\ last.res.err = BackendError(ReaderOf(Classified.pp))

\* C5, as claimed: every read-class operation, Exists and ListPrefix
\* included: when the primary returns without error the caller receives what
\* the primary returned and the reader is not invoked.
PrimarySuccessIsFinal ==
    (/\ Done /\ last.op \in ReadOps \cup {"Exists", "ListPrefix"} /\ RoutedKey
     /\ HasPrimary(Classified.pp)
     /\ Len(calls) >= 1 /\ calls[1].out \in {"ok", "true", "false"})
    => /\ Len(calls) = 1
       /\ last.res = Result(BackendReturn(calls[1].store, last.op, calls[1].out).val, "nil")

\* C5, amended: for Stat, the four downloads and ListPrefix, and for Exists
\* when the primary returns true or no reader is configured: when the primary
\* returns without error the caller receives what the primary returned and
\* the reader is not invoked.  When the primary's Exists returns false
\* without error and a reader is configured, Exists is invoked on the reader.
PrimarySuccessIsFinalButExistsFalse ==
    (/\ Done /\ last.op \in ReadOps \cup {"Exists", "ListPrefix"} /\ RoutedKey
     /\ HasPrimary(Classified.pp))
    => /\ (PrimaryEnded("ok") \/ PrimaryEnded("true"))
            => /\ Len(calls) = 1
               /\ last.res = Result(BackendReturn(calls[1].store, last.op,
                                                  calls[1].out).val, "nil")
       /\ (PrimaryEnded("false") /\ ~HasReader(Classified.pp))
            => /\ Len(calls) = 1
               /\ last.res = Result("false", "nil")
       /\ (PrimaryEnded("false") /\ HasReader(Classified.pp))
            => ReaderInvokedSecond

PrimarySucceededAlone ==
    /\ Done /\ last.op = "DownloadReader" /\ ObjectStoreKey
    /\ HasPrimary(Classified.pp) /\ HasReader(Classified.pp)
    /\ PrimaryEnded("ok")
    /\ Len(calls) = 1
    /\ last.res = Result(BackendValue(PrimaryOf(Classified.pp)), "nil")

\* C6: UploadData, Upload, UploadReader, Delete and DeleteDirectory invoke
\* the primary backend of the protocol of the key only, at most once, never
\* the reader; an error of the primary is returned as it is; without a
\* primary, also when a reader is configured, the call fails with
\* ErrNotConfigured and invokes no backend.
WritesGoToThePrimaryOnly ==
    (pc = "returned" /\ last.op \in WriteOps /\ RoutedKey)
    => /\ Len(calls) <= 1
       /\ \A i \in 1..Len(calls) :
            calls[i] = Invocation(PrimaryOf(Classified.pp), last.op, Classified.key,
                                  0, 0, calls[i].out)
       /\ PrimaryEnded("err")
            => last.res = Result("zero", BackendError(PrimaryOf(Classified.pp)))
       /\ (~HasPrimary(Classified.pp) /\ HasReader(Classified.pp))
            => calls = <<>> /\ last.res = Result("zero", ErrNotConfigured)

WriteFailedWithoutPrimary ==
    /\ Done /\ last.op = "Delete" /\ ObjectStoreKey
    /\ ~HasPrimary(Classified.pp) /\ HasReader(Classified.pp)
    /\ calls = <<>>
    /\ last.res.err = ErrNotConfigured

\* C7: every one of the twelve operations: when GetPathProtocol returns an
\* error for the key, or a protocol other than qiniu, s3 and the local
\* filesystem, the operation returns a non-nil error and invokes no backend.
UnroutableKeyFails ==
    (/\ pc = "returned"
     /\ \/ Classified.err # "nil"
        \/ Classified.pp \notin {QiniuProtocol, S3Protocol, OSProtocol})
    => /\ last.op \in AllOps
       /\ ~last.res.panic
       /\ last.res.err # "nil"
       /\ calls = <<>>

UnsupportedSchemeFailed ==
    /\ Done /\ last.op = "Stat"
    /\ Classified = [pp |-> UnknownPathProtocol, key |-> <<"/","a">>, err |-> "nil"]
    /\ last.res.err = UnsupportedProtocol
    /\ calls = <<>>

\* C8: when the key classifies to qiniu or s3 and the Store has neither a
\* primary nor a reader for that protocol, every operation fails with an
\* error made of the protocol and ErrNotConfigured, and invokes no backend;
\* NewStore with no configuration at all returns such a Store without error.
UnconfiguredProtocolFailsAtCallTime ==
    /\ newStore("", "", [n \in EnvNames |-> "unset"]).err = "nil"
    /\ newStore("", "", [n \in EnvNames |-> "unset"]).store.qiniuStore = "nil"
    /\ newStore("", "", [n \in EnvNames |-> "unset"]).store.s3ReaderStore = "nil"
    /\ (/\ pc = "returned" /\ ObjectStoreKey
        /\ ~HasPrimary(Classified.pp) /\ ~HasReader(Classified.pp))
       => /\ last.op \in AllOps
          /\ ~last.res.panic
          /\ last.res.err = Classified.pp \o " " \o ErrNotConfigured
          /\ last.res.err \in {"qiniu store is not configured", "s3 store is not configured"}
          /\ calls = <<>>

UnconfiguredProtocolFailed ==
    /\ Done /\ last.op = "UploadData" /\ ObjectStoreKey
    /\ store = newStore("", "", [n \in EnvNames |-> "unset"]).store
    /\ last.res.err = "qiniu store is not configured"
    /\ calls = <<>>

(***************************************************************************)
(* properties of GetPathProtocol                                           *)
(***************************************************************************)
SupportedSchemes == { <<"q","i","n","i","u">>, <<"s","3">> }

ProtocolOfScheme(s) == IF s = <<"s","3">> THEN S3Protocol ELSE QiniuProtocol

OneSlashForm(s, k) == s \o <<":", "/">> \o k

ThreeSlashForm(s, k) == s \o <<":", "/", "/", "/">> \o k

\* The key k of the path p = s:/k
KeyAfterOneSlash(s, p) == SubSeq(p, Len(s) + 3, Len(p))

\* Every "%" of t starts a percent-escape: two hexadecimal digits follow.
EscapesWellFormed(t) ==
    \A i \in DOMAIN t :
        t[i] = "%" => i + 2 <= Len(t) /\ ishex(t[i + 1]) /\ ishex(t[i + 2])

\* The part of k before its query and fragment, and its fragment.
PathPartOf(k) == Cut(Cut(k, "#").before, "?").before

FragmentOf(k) == Cut(k, "#").after

SameTagAndKey(a, b) == a.pp = b.pp /\ a.key = b.key

BothSucceed(a, b) == a.err = "nil" /\ b.err = "nil"

\* C9, as claimed: for s in {qiniu, s3} and every key k, GetPathProtocol of
\* s:/k and of s:///k both succeed and return the same protocol and key.
OneAndThreeSlashesAgreeForEveryKey ==
    \A s \in SupportedSchemes :
        (pres # Pending /\ HasPrefix(pin, OneSlashForm(s, <<>>)))
        => /\ BothSucceed(pres, GetPathProtocol(ThreeSlashForm(s, KeyAfterOneSlash(s, pin))))
           /\ SameTagAndKey(pres, GetPathProtocol(ThreeSlashForm(s, KeyAfterOneSlash(s, pin))))

\* C9, amended: for s in {qiniu, s3} and every key k that does not begin
\* with "/", GetPathProtocol of s:/k and of s:///k return the same protocol
\* and key and fail or succeed together; both succeed, with protocol s, when
\* every "%" in the path and in the fragment of k starts a percent-escape.
OneAndThreeSlashesAgree ==
    \A s \in SupportedSchemes :
        (/\ pres # Pending /\ HasPrefix(pin, OneSlashForm(s, <<>>))
         /\ ~HasPrefix(KeyAfterOneSlash(s, pin), <<"/">>))
        => /\ SameTagAndKey(pres, GetPathProtocol(ThreeSlashForm(s, KeyAfterOneSlash(s, pin))))
           /\ (pres.err = "nil")
                <=> (GetPathProtocol(ThreeSlashForm(s, KeyAfterOneSlash(s, pin))).err = "nil")
           /\ (/\ EscapesWellFormed(PathPartOf(KeyAfterOneSlash(s, pin)))
               /\ EscapesWellFormed(FragmentOf(KeyAfterOneSlash(s, pin))))
                => /\ pres.err = "nil"
                   /\ pres.pp = ProtocolOfScheme(s)

EscapedKeyClassifiedAlike ==
    /\ pin = <<"s","3",":","/","a","%","2","F">>
    /\ pres = [pp |-> S3Protocol, key |-> <<"a","/">>, err |-> "nil"]
    /\ GetPathProtocol(<<"s","3",":","/","/","/","a","%","2","F">>) = pres

\* The authority of the URI p: what stands between the "//" that follows
\* the scheme and the next "/", "?" or "#"; empty when there is no "//".
HierPartOf(p) == Cut(getScheme(Cut(p, "#").before).rest, "?").before

AuthorityOf(p) ==
    IF HasPrefix(HierPartOf(p), <<"/", "/">>)
    THEN Cut(SubSeq(HierPartOf(p), 3, Len(HierPartOf(p))), "/").before
    ELSE <<>>

\* C10: GetPathProtocol returns an error and UnknownPathProtocol for every
\* input with a non-empty authority (what stands between "//" and the next
\* "/", host or otherwise), whatever the scheme.
AuthorityIsAlwaysAnError ==
    (pres # Pending /\ AuthorityOf(pin) # <<>>)
    => pres.err # "nil" /\ pres.pp = UnknownPathProtocol

\* A scheme name of a URL: a letter, then letters, digits, "+", "-" and ".".
IsSchemeName(t) ==
    /\ t # <<>>
    /\ IsLetter(t[1])
    /\ \A i \in DOMAIN t : IsLetter(t[i]) \/ IsDigit(t[i]) \/ t[i] \in {"+", "-", "."}

\* p is scheme-qualified: a scheme name stands before its first ":".
HasScheme(p) == Index(p, ":") > 0 /\ IsSchemeName(SubSeq(p, 1, Index(p, ":") - 1))

AfterColon(p) == SubSeq(p, Index(p, ":") + 1, Len(p))

\* p is a bare relative path: no scheme, and p does not begin with "/".
BareRelative(p) == p # <<>> /\ ~HasScheme(p) /\ ~HasPrefix(p, <<"/">>)

BeginsWithEscapedSlash(p) ==
    HasPrefix(p, <<"%", "2", "f">>) \/ HasPrefix(p, <<"%", "2", "F">>)

FailsAsUnknown(r) == r.err # "nil" /\ r.pp = UnknownPathProtocol

\* What url.Parse returns for the path given to GetPathProtocol.
Parsed == Parse(pin)

\* C11, as claimed: GetPathProtocol returns an error and UnknownPathProtocol
\* for the empty string, for every bare relative path and for every
\* scheme-qualified path whose part after the colon does not begin with "/".
RelativePathsFail ==
    (/\ pres # Pending
     /\ \/ pin = <<>>
        \/ BareRelative(pin)
        \/ HasScheme(pin) /\ ~HasPrefix(AfterColon(pin), <<"/">>))
    => FailsAsUnknown(pres)

\* C11, amended: as C11, for the bare relative paths that do not begin with
\* a percent-escaped slash ("%2F", "%2f").
RelativePathsFailUnlessEscapedSlash ==
    (/\ pres # Pending
     /\ \/ pin = <<>>
        \/ BareRelative(pin) /\ ~BeginsWithEscapedSlash(pin)
        \/ HasScheme(pin) /\ ~HasPrefix(AfterColon(pin), <<"/">>))
    => FailsAsUnknown(pres)

RelativePathFailed ==
    /\ pin = <<"a", "/">>
    /\ BareRelative(pin)
    /\ pres = [pp |-> UnknownPathProtocol, key |-> <<"a", "/">>, err |-> "unsupported path"]

\* C12, as claimed: for every input classified as OSProtocol the error is
\* nil and the key is the input itself.
LocalKeyIsTheInput ==
    (pres # Pending /\ pres.pp = OSProtocol)
    => pres.err = "nil" /\ pres.key = pin

\* C12, amended: for every input classified as OSProtocol the error is nil
\* and the key is the path of the input as a URL: it begins with "/"; when
\* the input has no "%" and no authority it is the input up to its first
\* "?" or "#", and so the input itself when the input has no "?" or "#"
\* either.
LocalKeyIsTheURLPath ==
    (pres # Pending /\ pres.pp = OSProtocol)
    => /\ pres.err = "nil"
       /\ HasPrefix(pres.key, <<"/">>)
       /\ (~Contains(pin, "%") /\ AuthorityOf(pin) = <<>>)
            => pres.key = PathPartOf(pin)
       /\ (/\ ~Contains(pin, "%") /\ AuthorityOf(pin) = <<>>
           /\ ~Contains(pin, "?") /\ ~Contains(pin, "#"))
            => pres.key = pin

LocalPathClassified ==
    /\ pin = <<"/", "a", "/">>
    /\ pres = [pp |-> OSProtocol, key |-> <<"/", "a", "/">>, err |-> "nil"]

\* C13: for every input with a non-empty path, no host and a scheme other
\* than qiniu, s3 and the empty one, GetPathProtocol returns
\* UnknownPathProtocol and a nil error; an error comes with
\* UnknownPathProtocol only when url.Parse fails, the path is empty, a host
\* is present or the path is bare and relative.
ForeignSchemeIsUnknownWithoutError ==
    pres # Pending
    => /\ (/\ Parsed.err = "nil" /\ Parsed.Path # <<>> /\ Parsed.Host = <<>>
           /\ Parsed.Scheme \notin {<<"q","i","n","i","u">>, <<"s","3">>, <<>>})
            => pres = [pp |-> UnknownPathProtocol, key |-> Parsed.Path, err |-> "nil"]
       /\ FailsAsUnknown(pres)
            => \/ Parsed.err # "nil"
               \/ Parsed.Path = <<>>
               \/ Parsed.Host # <<>>
               \/ Parsed.Scheme = <<>> /\ ~HasPrefix(Parsed.Path, <<"/">>)
       /\ pres.err # "nil" => pres.pp = UnknownPathProtocol

ForeignSchemeClassified ==
    /\ pin = <<"f","i","l","e",":","/","a">>
    /\ pres = [pp |-> UnknownPathProtocol, key |-> <<"/", "a">>, err |-> "nil"]

\* C14: IsUnionPath(p) is true exactly when GetPathProtocol(p) returns a nil
\* error and a protocol other than OSProtocol.
UnionPathIffClassifiedNotLocal ==
    (pres # Pending /\ punion # "pending")
    => (punion = "true" <=> (pres.err = "nil" /\ pres.pp # OSProtocol))

ForeignSchemeIsUnionPath ==
    /\ pin = <<"f","i","l","e",":","/","a">>
    /\ pres = [pp |-> UnknownPathProtocol, key |-> <<"/", "a">>, err |-> "nil"]
    /\ punion = "true"

\* C15, as claimed: every key for which IsUnionPath is true classifies to
\* qiniu or s3, and no Store operation on it fails with the
\* unsupported-protocol error.
UnionPathsAreRoutable ==
    (pc = "returned" /\ IsUnionPath(last.key))
    => /\ Classified.pp \in {QiniuProtocol, S3Protocol}
       /\ last.res.err # UnsupportedProtocol

\* C16, as claimed: the key of every input classified as qiniu or s3 does
\* not begin with "/".
ObjectKeyNeverSlashRooted ==
    (pres # Pending /\ pres.err = "nil" /\ pres.pp \in {QiniuProtocol, S3Protocol})
    => ~HasPrefix(pres.key, <<"/">>)

\* C16, amended: the key of every input classified as qiniu or s3 is the
\* path of the URL with exactly one leading "/" removed; it begins with "/"
\* exactly when that path begins with "//".
ObjectKeyIsPathLessOneSlash ==
    (pres # Pending /\ pres.err = "nil" /\ pres.pp \in {QiniuProtocol, S3Protocol})
    => /\ <<"/">> \o pres.key = Parsed.Path
       /\ HasPrefix(pres.key, <<"/">>) <=> HasPrefix(Parsed.Path, <<"/", "/">>)

ObjectKeyKeptSecondSlash ==
    /\ pin = <<"s","3",":","/","/","/","/","a">>
    /\ pres = [pp |-> S3Protocol, key |-> <<"/", "a">>, err |-> "nil"]
(***************************************************************************)
(* properties of the prefix configuration table                            *)
(***************************************************************************)
WithTrailingSlash(t) ==
    IF t # <<>> /\ t[Len(t)] = "/" THEN t ELSE t \o <<"/">>

StartsWith(t, p) == Len(p) <= Len(t) /\ SubSeq(t, 1, Len(p)) = p

prefix1 == <<"p","r","e","f","i","x","1">>

\* C17: isKeyStartsWithPrefix(key, prefix) is true exactly when key, with a
\* "/" appended if it does not end in one, starts with prefix, with a "/"
\* appended if it does not end in one; the prefix "prefix1" matches the keys
\* "prefix1/x", "prefix1/" and "prefix1" and matches neither "prefix12/x"
\* nor "prefix2/some/key".
PrefixMatchIsDirectoryContainment ==
    /\ mmatch # "pending" =>
        (mmatch = "true" <=>
            StartsWith(WithTrailingSlash(mkey), WithTrailingSlash(mprefix)))
    /\ isKeyStartsWithPrefix(prefix1 \o <<"/","x">>, prefix1)
    /\ isKeyStartsWithPrefix(prefix1 \o <<"/">>, prefix1)
    /\ isKeyStartsWithPrefix(prefix1, prefix1)
    /\ ~isKeyStartsWithPrefix(prefix1 \o <<"2","/","x">>, prefix1)
    /\ ~isKeyStartsWithPrefix(
            <<"p","r","e","f","i","x","2","/","s","o","m","e","/","k","e","y">>,
            prefix1)

\* a key below the prefix matched, and a key that only begins with the
\* letters of the prefix would not
KeyBelowPrefixMatched ==
    /\ mkey = <<"a", "/", "b">>
    /\ mprefix = <<"a">>
    /\ mmatch = "true"
    /\ ~isKeyStartsWithPrefix(<<"a", "b", "/">>, mprefix)
\* The entries of the table whose prefix matches the key.
MatchingEntries ==
    { e \in mcfgs :
        StartsWith(WithTrailingSlash(mkey), WithTrailingSlash(e.prefix)) }

GetStoreReturned == mres.err # <<"pending">>

\* C18: getStore(key) builds a backend only from a configuration whose
\* prefix matches key: when exactly one prefix of the table matches, that
\* configuration is used in every iteration order of the map; when several
\* match, the one used is one of them; when none matches, getStore returns
\* an error that names the key and builds no backend.
GetStoreUsesAMatchingConfig ==
    GetStoreReturned =>
        /\ mres.from \subseteq { e.prefix : e \in MatchingEntries }
        /\ MatchingEntries # {} =>
            /\ Cardinality(mres.from) = 1
            /\ mres.err # <<NoConfigurationFound>> \o mkey
        /\ Cardinality(MatchingEntries) = 1 =>
            mres.from = { e.prefix : e \in MatchingEntries }
        /\ MatchingEntries = {} =>
            /\ mres.st = "nil"
            /\ mres.from = {}
            /\ mres.err = <<NoConfigurationFound>> \o mkey

\* the table holds two prefixes of which one matches the key, and the
\* backend was built from that one
OnlyMatchingConfigUsed ==
    /\ GetStoreReturned
    /\ mkey = <<"a", "/", "b">>
    /\ { e.prefix : e \in mcfgs } = { <<"a">>, <<"b">> }
    /\ mres.from = { <<"a">> }
    /\ mres.st = "S3Store"
(***************************************************************************)
(* properties of the Store facade: panics                                  *)
(***************************************************************************)
\* The methods of Store that defer a recover.
RecoveringOps == ReadOps \cup {"Exists"}

BackendPanicked == \E i \in 1..Len(calls) : calls[i].out = "panic"

\* C19 as claimed: in each of the twelve operations of Store, a panic
\* raised inside the call is converted into a non-nil error and does not
\* reach the caller.
EveryPanicBecomesAnError ==
    (pc = "returned" /\ BackendPanicked) =>
        (~last.res.panic /\ last.res.err # "nil")

\* C19: in Exists, Stat and the four downloads a panic raised inside the
\* call is converted into a non-nil error ("recover: ...") and does not
\* reach the caller; in ListPrefix and the five write operations a panic of
\* the backend method reaches the caller.
PanicBecomesAnErrorInReadsOnly ==
    (pc = "returned" /\ BackendPanicked) =>
        /\ last.op \in RecoveringOps =>
            (~last.res.panic /\ last.res.err = "recover")
        /\ last.op \notin RecoveringOps => last.res.panic

\* the reader panicked after the primary failed, and Stat returned an error
ReaderPanicRecovered ==
    /\ pc = "returned"
    /\ last.op = "Stat"
    /\ Len(calls) = 2
    /\ calls[1].out = "err"
    /\ calls[2].out = "panic"
    /\ ~last.res.panic
    /\ last.res.err = "recover"
(***************************************************************************)
(* properties of the construction                                          *)
(***************************************************************************)
Roles == {"qiniuStore", "qiniuReaderStore", "s3Store", "s3ReaderStore"}

\* The argument of a primary role; a reader has none.
ArgumentOf(role) ==
    CASE role = "qiniuStore" -> nargs[1]
      [] role = "s3Store"    -> nargs[2]
      [] OTHER               -> ""

\* The environment variables of a role, in the order of its list.
DeclaredList(role) ==
    CASE role = "qiniuStore"       -> <<QiniuEnv, QINIU_ENV>>
      [] role = "qiniuReaderStore" -> <<QINIU_MULTI_CLUSTER_ENV, QiniuReaderEnv,
                                        "QINIU_READER_CONFIG_PATH">>
      [] role = "s3Store"          -> <<S3Env>>
      [] role = "s3ReaderStore"    -> <<S3ReaderEnv>>

SetIndexes(role) ==
    { i \in 1..Len(DeclaredList(role)) : nenv[DeclaredList(role)[i]] # "unset" }

FirstSet(role) ==
    DeclaredList(role)[CHOOSE i \in SetIndexes(role) :
                            \A j \in SetIndexes(role) : i <= j]

\* The source of a role by the precedence: "argument", the name of an
\* environment variable, or "none".
ChosenSource(role) ==
    IF ArgumentOf(role) # "" THEN "argument"
    ELSE IF SetIndexes(role) = {} THEN "none"
    ELSE FirstSet(role)

\* The chosen source names a configuration that does not load.  Nothing is
\* loaded for QINIU_MULTI_CLUSTER at construction.
ChosenSourceFails(role) ==
    CASE ChosenSource(role) = "argument" -> ArgumentOf(role) = "bad"
      [] ChosenSource(role) = "none" -> FALSE
      [] ChosenSource(role) = QINIU_MULTI_CLUSTER_ENV -> FALSE
      [] OTHER -> nenv[ChosenSource(role)] = "bad"

NewStoreReturned == nres.err # "pending"

\* C20: newStore takes the configuration of each role by a fixed
\* precedence: a non-empty path argument of a primary role, without
\* reading the environment; otherwise the first variable of the role's
\* list that is set; when none is set the role stays unconfigured and
\* newStore succeeds; when a chosen source does not load, newStore returns
\* an error and no Store.
ConstructionFollowsPrecedence ==
    NewStoreReturned =>
        /\ (nres.err # "nil") <=> (\E role \in Roles : ChosenSourceFails(role))
        /\ nres.err # "nil" => nres.store = NoStore
        /\ nres.err = "nil" =>
            /\ nres.store.osStore = "OSStore"
            /\ \A role \in Roles :
                /\ nres.used[role] = ChosenSource(role)
                /\ (nres.store[role] = "nil") <=> (ChosenSource(role) = "none")
                /\ (nres.store[role] = "MultiClusterQiniuStore")
                      <=> (ChosenSource(role) = QINIU_MULTI_CLUSTER_ENV)

\* the argument was taken although QINIU_STORE_CONFIG names a file that
\* does not load, the reader came from the second variable of its list
\* although the third is set, and s3 stayed unconfigured
ArgumentAndFirstVariableWon ==
    /\ NewStoreReturned
    /\ nres.err = "nil"
    /\ nargs[1] = "good"
    /\ nenv[QiniuEnv] = "bad"
    /\ nenv[QINIU_MULTI_CLUSTER_ENV] = "unset"
    /\ nenv[QiniuReaderEnv] = "good"
    /\ nenv["QINIU_READER_CONFIG_PATH"] = "bad"
    /\ nres.used.qiniuReaderStore = QiniuReaderEnv
    /\ nres.store.s3Store = "nil"
    /\ nres.store.s3ReaderStore = "nil"
(***************************************************************************)
(* properties of the Store facade: isolation and frame                     *)
(***************************************************************************)
\* The Store fields registered under a protocol.
BackendsOf(pp) ==
    CASE pp = QiniuProtocol -> {"qiniuStore", "qiniuReaderStore"}
      [] pp = S3Protocol    -> {"s3Store", "s3ReaderStore"}
      [] pp = OSProtocol    -> {"osStore"}
      [] OTHER              -> {}

\* C25: a Store call on a key classified to a protocol invokes only the
\* backends registered under that protocol, however the call ends; a bare
\* absolute path invokes the local filesystem backend only, once, and a key
\* that does not classify invokes no backend.
OnlyTheProtocolsBackendsAreInvoked ==
    pc = "returned" =>
        /\ \A i \in 1..Len(calls) :
            /\ Classified.err = "nil"
            /\ calls[i].store \in BackendsOf(Classified.pp)
            /\ store[calls[i].store] # "nil"
        /\ (Classified.err = "nil" /\ Classified.pp = OSProtocol) =>
            (Len(calls) <= 1 /\ \A i \in 1..Len(calls) : calls[i].store = "osStore")

\* a read of an s3 key went to the s3 primary and then to the s3 reader,
\* in a Store that holds both qiniu backends too
S3ReadStayedWithinS3 ==
    /\ pc = "returned"
    /\ last.op = "DownloadBytes"
    /\ Classified.err = "nil" /\ Classified.pp = S3Protocol
    /\ store.qiniuStore # "nil" /\ store.qiniuReaderStore # "nil"
    /\ Len(calls) = 2
    /\ calls[1].store = "s3Store"
    /\ calls[2].store = "s3ReaderStore"
\* C26: no operation of the Store, whether it succeeds, fails or panics,
\* and however the calls of concurrent callers interleave, changes the
\* backend held in any of the five fields of the Store: an unconfigured
\* role stays unconfigured and a configured one keeps its backend.
StoreFieldsNeverChange == [][store' = store]_vars

\* in a Store with a reader of qiniu and no primary of it, a call of one
\* caller failed while a write of the other caller, routed to no primary,
\* has not returned
CallFailedWhileAnotherRuns ==
    /\ sc # <<>>
    /\ store.qiniuStore = "nil" /\ store.qiniuReaderStore # "nil"
    /\ sc[1].pc = "idle" /\ sc[1].err = "error"
    /\ sc[2].pc = "routed" /\ sc[2].op \in WriteOps
    /\ sc[2].g.st = "nil" /\ sc[2].g.rt = "qiniuReaderStore"
\* The protocol of the key has a reader and no primary.
ReaderOnly ==
    ObjectStoreKey /\ ~HasPrimary(Classified.pp) /\ HasReader(Classified.pp)

\* C30: when an object-store protocol has its reader configured and no
\* primary, Stat, Exists and the four downloads invoke the reader, once,
\* with the normalized key, and return what it returns, value or error;
\* ListPrefix and the write operations fail with ErrNotConfigured and do not
\* invoke the reader.
ReaderAloneServesReadsOnly ==
    (pc = "returned" /\ ReaderOnly) =>
        /\ last.op \in ReadOps \cup {"Exists"} =>
            /\ Len(calls) = 1
            /\ calls[1] = Invocation(ReaderOf(Classified.pp), last.op, Classified.key,
                                     last.offset, last.size, calls[1].out)
            /\ calls[1].out # "panic" =>
                 /\ ~last.res.panic
                 /\ last.res.val =
                      BackendReturn(ReaderOf(Classified.pp), last.op, calls[1].out).val
                 /\ last.res.err =
                      BackendReturn(ReaderOf(Classified.pp), last.op, calls[1].out).err
        /\ last.op \in WriteOps \cup {"ListPrefix"} =>
            /\ calls = <<>>
            /\ ~last.res.panic
            /\ last.res.err = ErrNotConfigured

\* Exists of a key of s3 was answered "true" by the reader of s3, the only
\* s3 backend of the Store
ReaderAloneAnsweredExists ==
    /\ pc = "returned"
    /\ ReaderOnly
    /\ last.op = "Exists"
    /\ Classified.pp = S3Protocol
    /\ Len(calls) = 1
    /\ calls[1].store = "s3ReaderStore"
    /\ last.res.val = "true"
    /\ last.res.err = "nil"
(***************************************************************************)
(* properties of OSStore, and of the Store on local keys                   *)
(***************************************************************************)
\* What a call of op on the key of the last call, made now the same way,
\* returns.
NowOnSameKey(op) == CallVia(olast.via, fs, op, olast.key, <<>>, <<>>, 0, 0)

\* C21: on OSStore and on the Store with a local key K: once
\* UploadData(d, K) has succeeded, Exists(K) is true and DownloadBytes(K)
\* returns d; once Delete(K) has succeeded, Exists(K) is false with no
\* error and another Delete(K) returns an error.
UploadDownloadDeleteRoundTrip ==
    /\ (olast.op = "UploadData" /\ olast.err = "nil") =>
        /\ NowOnSameKey("Exists").val = <<"true">>
        /\ NowOnSameKey("Exists").err = "nil"
        /\ NowOnSameKey("DownloadBytes").val = olast.data
        /\ NowOnSameKey("DownloadBytes").err = "nil"
    /\ (olast.op = "Delete" /\ olast.err = "nil") =>
        /\ NowOnSameKey("Exists").val = <<"false">>
        /\ NowOnSameKey("Exists").err = "nil"
        /\ NowOnSameKey("Delete").err # "nil"

\* Delete through the Store removed the file that an upload had put under
\* the key, written with an escaped letter
UploadedKeyDeleted ==
    /\ olast.via = "Store"
    /\ olast.op = "Delete"
    /\ olast.err = "nil"
    /\ olast.key = <<"/","d","/","%","6","1">>
    /\ fs[<<"/","d">>].kind = "dir"
    /\ fs[<<"/","d","/","a">>].kind = "none"
\* C22: once UploadData(d, K) has succeeded, for every offset and length
\* with offset + length <= len(d), DownloadRangeBytes(K, offset, length)
\* returns the bytes d[offset .. offset+length) and no error, and the stream
\* of DownloadRangeReader(K, offset, length) read to its end yields the same
\* bytes.
RangeDownloadsReturnTheSlice ==
    /\ (rng.last.op = "DownloadRangeBytes" /\ rng.kind = "file"
            /\ rng.last.offset + rng.last.size <= rng.len) =>
          /\ rng.last.err = "nil"
          /\ rng.last.from = rng.last.offset
          /\ rng.last.n = rng.last.size
    /\ (rng.last.op = "Read" /\ rng.last.err = "EOF" /\ rng.stream.kind = "file"
            /\ rng.stream.from + rng.stream.size <= rng.stream.len) =>
          rng.stream.got = rng.stream.size
\* The files directly under the directory dir.
FilesUnder(dir) ==
    { p \in OSPaths : pathDir(p) = dir /\ fs[p].kind = "file" }

\* ListPrefix of a directory that holds uploaded files has returned.
ListedADirectory ==
    /\ olast.op = "ListPrefix"
    /\ olast.err = "nil"
    /\ FilesUnder(GetPathProtocol(olast.key).key) # {}

\* C23 as claimed: after n keys were uploaded under a directory that holds
\* nothing else, ListPrefix of the directory returns n keys, among them the
\* normalized key of each uploaded path, as GetPathProtocol returns it, with
\* its leading "/" stripped.
ListedKeysAreNormalizedKeys ==
    ListedADirectory =>
        /\ Len(olast.val) = Cardinality(FilesUnder(GetPathProtocol(olast.key).key))
        /\ \A p \in FilesUnder(GetPathProtocol(olast.key).key) :
              \E i \in 1..Len(olast.val) :
                  olast.val[i] = TrimPrefix(GetPathProtocol(p).key, <<"/">>)
UploadOps == {"UploadData", "UploadReader", "Upload"}

\* The path a call works on: the key, or for the Store the key as
\* GetPathProtocol normalizes it.
WorkedPath(c) == IF c.via = "Store" THEN GetPathProtocol(c.key).key ELSE c.key

\* C24: on the local backend UploadData, UploadReader and Upload to a key
\* that exists return an error and leave the file system as it is; no
\* upload changes the content of a file that exists.
UploadNeverOverwrites ==
    [][ (olast.op = "none" /\ olast'.op \in UploadOps) =>
            /\ osStat(fs, WorkedPath(olast')).err = "nil" =>
                  (olast'.err # "nil" /\ fs' = fs)
            /\ \A p \in OSPaths : fs[p].kind = "file" => fs'[p] = fs[p] ]_vars

\* UploadData of other bytes to a key that holds a file was refused, and
\* the file holds what it held
UploadToExistingKeyRefused ==
    /\ olast.op = "UploadData"
    /\ olast.err = AlreadyExists
    /\ olast.data = <<"y">>
    /\ osStat(fs, WorkedPath(olast)).kind = "file"
    /\ osStat(fs, WorkedPath(olast)).data = <<"x", "x">>
BothUploadsReturned == race # <<>> /\ \A p \in RaceProcs : race[p].pc = "done"

\* C28 as claimed: of two uploads of OSStore that run concurrently on a key
\* that does not exist, at most one returns without error, and the key
\* then holds the data of the one that did.
AtMostOneConcurrentUploadSucceeds ==
    BothUploadsReturned =>
        /\ Cardinality({ p \in RaceProcs : race[p].err = "nil" }) <= 1
        /\ \A p \in RaceProcs :
              race[p].err = "nil" => fs[RaceKey] = FileEntry(race[p].data)
(***************************************************************************)
(* properties of the lock of S3MultiStoreConfig                            *)
(***************************************************************************)
InLookup(p) == gs[p].pc \in {"locked", "selected"}

\* A caller holds the read lock exactly while it is in its lookup, so it
\* holds none once it returned; nobody holds or awaits the write lock, so
\* no RLock waits.
ReadLockHeldDuringLookupOnly ==
    /\ lk.writer = FALSE
    /\ \A p \in DOMAIN gs :
          /\ InLookup(p) <=> p \in lk.readers
          /\ gs[p].pc = "start" => CanRLock(lk)

AllGetStoreReturned == \A p \in DOMAIN gs : gs[p].pc = "done"

\* C27: under every interleaving of concurrent getStore calls, each call
\* holds the read lock from its RLock to its return and has released it
\* after every return (no match, construction error, success); the write
\* lock is never taken and the table never changes, so callers hold the
\* lock together, none waits for another, and every call returns.
ConcurrentLookupsNeverBlock ==
    /\ []ReadLockHeldDuringLookupOnly
    /\ [][mcfgs' = mcfgs]_vars
    /\ <>[]AllGetStoreReturned

\* two callers hold the read lock at once, and one of them will return an
\* error because no prefix matches its key
TwoReadersHoldTheLock ==
    /\ DOMAIN gs = LockProcs
    /\ lk.readers = {1, 2}
    /\ gs[1].pc = "selected" /\ ~gs[1].sel.ok
    /\ gs[2].pc = "locked"
(***************************************************************************)
(* properties of the Reader                                                *)
(***************************************************************************)
StreamOpens == rio.opened + rio.failed + rio.void

\* The Reader has a stream exactly when one open succeeded; a Read that
\* returned the error of a failed open left no stream; the stream was
\* closed at most once, and only a stream that was opened.
ReaderStreamCounts ==
    /\ rio.opened <= 1
    /\ rd.body # "nil" <=> rio.opened = 1
    /\ rlast.err = OpenFailed => rlast.op = "Read" /\ rd.body = "nil"
    /\ rio.closed <= rio.opened

\* A step of the Reader: only Read opens or reads a stream; the Read after
\* a failed open opens again; a Read of a closed Reader returns the error
\* and opens and reads nothing.
ReaderStep ==
    /\ rio'.calls = rio.calls + 1
    /\ rlast'.op = "Close" =>
          /\ rio'.opened = rio.opened /\ rio'.failed = rio.failed /\ rio'.void = rio.void
          /\ rio'.read = rio.read
          /\ rd'.closed
    /\ rlast.err = OpenFailed /\ rlast'.op = "Read" =>
          rio'.opened + rio'.failed + rio'.void = StreamOpens + 1
    /\ rd.closed /\ rlast'.op = "Read" =>
          /\ rlast'.err = ReaderClosed
          /\ rio' = [rio EXCEPT !.calls = @ + 1]
          /\ rd' = rd
    /\ rd.closed => rd'.closed

\* C29: over every sequence of Read and Close calls on one Reader, no
\* stream is opened before the first Read and at most one open succeeds;
\* a failed open returns its error and leaves the Reader without a stream,
\* and the next Read opens again; once the Reader is closed every Read
\* returns an error and neither opens nor reads a stream; the stream's
\* Close is called at most once.
ReaderOpensOnceClosesOnce ==
    /\ []ReaderStreamCounts
    /\ [][ReaderStep]_vars

\* an open failed, the next Read opened the stream, Close was called twice
\* and a Read followed
ReadAfterSecondClose ==
    /\ rio.failed = 1 /\ rio.opened = 1 /\ rio.closed = 1
    /\ rio.calls = 5
    /\ rlast = [op |-> "Read", err |-> ReaderClosed]
=============================================================================
